---- MODULE Spec2Model ----
(***************************************************************************)
(* Model of the C blit routines that scripts/png2blit.py emits             *)
(* (generate_source): <name>_blit_rgb888, <name>_blit_rgb888_<N>x and      *)
(* <name>_blit_rgb888_alpha, run against a caller-owned destination        *)
(* buffer.  The destination is a flat byte array addressed exactly as the  *)
(* C code addresses it (row * dst_stride_bytes + column * 3 + channel).    *)
(*                                                                         *)
(* The C type int is modelled with IntBits bits (the generated code's int  *)
(* has 32).  Signed overflow is undefined behaviour in C; a build resolves  *)
(* it as "wrap" (two's complement wrap-around) or as "wide" (the value is  *)
(* kept exact, in a wider register).  The variable overflow records the    *)
(* resolution a call ran under, or "none" when its stores are the same     *)
(* under both.                                                             *)
(* Address arithmetic and the channel arithmetic of the blend, whose       *)
(* operands are bytes, are evaluated exactly.  A store outside the         *)
(* destination buffer may end the call by a fault.                         *)
(*                                                                         *)
(* Spec runs one call of a routine; SpecConc runs two calls concurrently,  *)
(* a pixel store per step.  SpecSanitize and SpecTool model the script     *)
(* itself: sanitize_c_identifier, format_pixel_array, generate_header,     *)
(* generate_source, convert_png_to_blit and main, with the generated text  *)
(* kept as lines and the file system as the output directory and the two   *)
(* files.  SpecBlend evaluates the blend expression of the alpha routine   *)
(* on single channels, over every alpha.                                   *)
(*                                                                         *)
(* SpecFlasher models flasher/p3a_flasher.py: the Tk main thread's         *)
(* handlers (_scan_ports, _start_flash, _process_messages, destroy), the   *)
(* download, load and flash threads a step at a time, the message queue    *)
(* between them and the firmware directories on disk.  SpecFlasherLive is  *)
(* the same program with the window left open, the threads scheduled and   *)
(* the main loop running its 100 ms poll.                                  *)
(***************************************************************************)
EXTENDS Integers, Sequences, FiniteSets, TLC

\* ------------------------------------------------------------------------
\* Bounds of the model
\* ------------------------------------------------------------------------
IntBits == 6
MaxSrcW == 2
MaxSrcH == 2
MaxDstW == 4
MaxDstH == 2
MaxPad == 1
MaxScale == 3
MaxNear == 1
MaxNameLen == 3
MaxEncW == 3
MaxEncH == 2
ChanStep == 17
MaxOps == 2
MaxTimers == 2

\* ------------------------------------------------------------------------
\* C int arithmetic
\* ------------------------------------------------------------------------
IntMin == -(2 ^ (IntBits - 1))
IntMax == (2 ^ (IntBits - 1)) - 1
InInt(v) == IntMin <= v /\ v <= IntMax
Wrap(v) == ((v - IntMin) % (2 ^ IntBits)) + IntMin
UBOutcomes == {"wrap", "wide"}

\* result of a signed int operation whose exact value is v
IntOp(v, ub) == IF InInt(v) \/ ub = "wide" THEN v ELSE Wrap(v)

\* C integer division truncates toward zero
CDiv(a, b) ==
    IF (a >= 0) = (b > 0)
    THEN (IF a >= 0 THEN a ELSE -a) \div (IF b > 0 THEN b ELSE -b)
    ELSE -((IF a >= 0 THEN a ELSE -a) \div (IF b > 0 THEN b ELSE -b))

\* (uint8_t) cast
U8(v) == v % 256

Max(a, b) == IF a >= b THEN a ELSE b
Min(a, b) == IF a <= b THEN a ELSE b

\* ------------------------------------------------------------------------
\* The embedded image: <name>_w, <name>_h, <name>_pixels[]
\* ------------------------------------------------------------------------
Palette ==
    << <<200, 100, 50>>, <<0, 255, 128>>, <<255, 0, 1>>, <<17, 34, 51>>,
       <<90, 91, 92>>, <<3, 250, 60>>, <<128, 129, 130>>, <<77, 5, 211>>,
       <<240, 16, 33>> >>

\* img.tobytes(): RGB, row-major, 3 bytes per pixel, no row padding
ImageBytes(w, h, v) ==
    [i \in 1..(w * h * 3) |->
        Palette[((((i - 1) \div 3) + v) % Len(Palette)) + 1][((i - 1) % 3) + 1]]

\* value of <name>_pixels[i]; the table has no element outside 0..len-1
PixelAt(px, i) == IF i >= 0 /\ i < Len(px) THEN px[i + 1] ELSE 0

FillByte == 9

VARIABLES
    src_w, src_h, pixels,                   \* the generated constants
    dst, dst_w, dst_h, dst_stride_bytes,    \* the caller's destination
    overflow,                               \* the build's signed overflow
    pc, call, writes, reads,
    threads,                                \* blit calls running concurrently
    tool_pc, tool_call, tool_ret, disk,     \* a run of the generator script
    \* the flasher window (P3AFlasher) and its threads
    window,                                 \* "open" until destroy()
    is_flashing, firmware_dir, releases, selected_port,
    msg_queue,                              \* queue.Queue of (type, data)
    scan_timers,                            \* pending after(2000, _scan_ports)
    workers,                                \* background threads alive
    fetch,                                  \* the _fetch_releases thread
    dirs,                                   \* directories on disk
    dones                                   \* 'done' messages put, per flash

flasher_vars == <<window, is_flashing, firmware_dir, releases, selected_port,
                  msg_queue, scan_timers, workers, fetch, dirs, dones>>

vars == <<src_w, src_h, pixels, dst, dst_w, dst_h, dst_stride_bytes,
          overflow, pc, call, writes, reads, threads, tool_pc, tool_call,
          tool_ret, disk, flasher_vars>>

blit_vars == <<src_w, src_h, pixels, dst, dst_w, dst_h, dst_stride_bytes,
               overflow, pc, call, writes, reads, threads>>

tool_vars == <<tool_pc, tool_call, tool_ret, disk>>

\* the generator script is not running
NoToolCall == [op |-> "none"]
\* no output directory, no header file, no source file
NoDisk == [outdir |-> FALSE, header |-> << >>, source |-> << >>]
ToolIdle ==
    /\ tool_pc = "idle"
    /\ tool_call = NoToolCall
    /\ tool_ret = [raised |-> "none", value |-> << >>]
    /\ disk = NoDisk

\* tempfile.mkdtemp(prefix='p3a_firmware_'): a fresh directory for each flash
TempDirs ==
    <<"p3a_firmware_1", "p3a_firmware_2", "p3a_firmware_3", "p3a_firmware_4">>

\* the flasher is not running
FlasherIdle ==
    /\ window = "none"
    /\ is_flashing = FALSE
    /\ firmware_dir = "None"
    /\ releases = FALSE
    /\ selected_port = ""
    /\ msg_queue = << >>
    /\ scan_timers = 0
    /\ workers = {}
    /\ fetch = "none"
    /\ dirs = {}
    /\ dones = << >>

\* ------------------------------------------------------------------------
\* Destination buffer
\* ------------------------------------------------------------------------
DstSize(h, stride) == h * stride
FreshDst(h, stride) == [o \in 0..(DstSize(h, stride) - 1) |-> FillByte]

\* one byte store *(dst + row*stride + col*3 + ch) = val
\* src is the index in <name>_pixels of the byte the value was computed from
Store(row, col, ch, stride, src, val) ==
    [row |-> row, col |-> col, ch |-> ch, off |-> row * stride + col * 3 + ch,
     src |-> src, val |-> val]

\* the buffer after a sequence of byte stores; a store outside the buffer
\* does not land in it
ApplyWrites(buf, ws) ==
    [o \in DOMAIN buf |->
        IF \E k \in 1..Len(ws) : ws[k].off = o
        THEN ws[CHOOSE k \in 1..Len(ws) :
                    /\ ws[k].off = o
                    /\ \A m \in (k + 1)..Len(ws) : ws[m].off # o].val
        ELSE buf[o]]

NoEffect == [writes |-> << >>, reads |-> {}]

\* ------------------------------------------------------------------------
\* <name>_blit_rgb888: row-wise memcpy with clipping
\* ------------------------------------------------------------------------
CopyStart(x, y, sw, sh) ==
    [src_x |-> 0, src_y |-> 0, copy_w |-> sw, copy_h |-> sh, x |-> x, y |-> y]

\* variant: the left clip forgets to advance the source column
CopyClipLeft_NoSrcOffset(s, ub) ==
    IF s.x < 0
    THEN [s EXCEPT !.copy_w = IntOp(s.copy_w + s.x, ub), !.x = 0]
    ELSE s

CopyClipLeft(s, ub) ==
    IF s.x < 0
    THEN [s EXCEPT !.src_x = IntOp(-s.x, ub),
                   !.copy_w = IntOp(s.copy_w + s.x, ub),
                   !.x = 0]
    ELSE s

\* variant: the top clip does not shorten the copy
CopyClipTop_NoShrink(s, ub) ==
    IF s.y < 0
    THEN [s EXCEPT !.src_y = IntOp(-s.y, ub), !.y = 0]
    ELSE s

CopyClipTop(s, ub) ==
    IF s.y < 0
    THEN [s EXCEPT !.src_y = IntOp(-s.y, ub),
                   !.copy_h = IntOp(s.copy_h + s.y, ub),
                   !.y = 0]
    ELSE s

\* variant: the right edge is never clipped
CopyClipRight_Never(s, dw, ub) == s

CopyClipRight(s, dw, ub) ==
    IF IntOp(s.x + s.copy_w, ub) > dw
    THEN [s EXCEPT !.copy_w = IntOp(dw - s.x, ub)]
    ELSE s

CopyClipBottom(s, dh, ub) ==
    IF IntOp(s.y + s.copy_h, ub) > dh
    THEN [s EXCEPT !.copy_h = IntOp(dh - s.y, ub)]
    ELSE s

CopyClip(x, y, sw, sh, dw, dh, ub) ==
    CopyClipBottom(
        CopyClipRight(
            CopyClipTop(CopyClipLeft(CopyStart(x, y, sw, sh), ub), ub),
            dw, ub),
        dh, ub)

CopyFullyClipped(s) == s.copy_w <= 0 \/ s.copy_h <= 0

\* memcpy(dst_row, src_row, copy_bytes) for j = 0 .. copy_h-1
CopyRows(px, sw, stride, s) ==
    LET src_stride == sw * 3
        copy_bytes == s.copy_w * 3
        n == s.copy_h * copy_bytes
        j(k) == (k - 1) \div copy_bytes
        b(k) == (k - 1) % copy_bytes
        srcIdx(k) == (s.src_y + j(k)) * src_stride + (s.src_x * 3) + b(k)
    IN  [writes |->
            [k \in 1..n |->
                Store(s.y + j(k), s.x + (b(k) \div 3), b(k) % 3, stride,
                      srcIdx(k), PixelAt(px, srcIdx(k)))],
         reads |-> {srcIdx(k) : k \in 1..n}]

blit_rgb888(px, sw, sh, dw, dh, stride, x, y, ub) ==
    LET s == CopyClip(x, y, sw, sh, dw, dh, ub)
    IN  IF CopyFullyClipped(s) THEN NoEffect ELSE CopyRows(px, sw, stride, s)

\* ------------------------------------------------------------------------
\* <name>_blit_rgb888_<N>x: pixel-by-pixel nearest-neighbour upscale
\* ------------------------------------------------------------------------
\* variant: the placed rectangle is one column too wide
ScaledStart_ExtraColumn(x, y, sw, sh, sc, ub) ==
    LET scaled_w == IntOp(sw * sc, ub)
        scaled_h == IntOp(sh * sc, ub)
    IN  [dst_x0 |-> x, dst_y0 |-> y,
         dst_x1 |-> IntOp(x + scaled_w + 1, ub),
         dst_y1 |-> IntOp(y + scaled_h, ub)]

ScaledStart(x, y, sw, sh, sc, ub) ==
    LET scaled_w == IntOp(sw * sc, ub)
        scaled_h == IntOp(sh * sc, ub)
    IN  [dst_x0 |-> x, dst_y0 |-> y,
         dst_x1 |-> IntOp(x + scaled_w, ub), dst_y1 |-> IntOp(y + scaled_h, ub)]

ScaledClamp(w, dw, dh) ==
    [dst_x0 |-> IF w.dst_x0 < 0 THEN 0 ELSE w.dst_x0,
     dst_y0 |-> IF w.dst_y0 < 0 THEN 0 ELSE w.dst_y0,
     dst_x1 |-> IF w.dst_x1 > dw THEN dw ELSE w.dst_x1,
     dst_y1 |-> IF w.dst_y1 > dh THEN dh ELSE w.dst_y1]

ScaledClip(x, y, sw, sh, sc, dw, dh, ub) ==
    ScaledClamp(ScaledStart(x, y, sw, sh, sc, ub), dw, dh)

ScaledFullyClipped(w) == w.dst_x0 >= w.dst_x1 \/ w.dst_y0 >= w.dst_y1

\* variant: the destination coordinate is scaled without subtracting the origin
ScaledSrcIdx_NoOrigin(d, o, sc, ub) == CDiv(d, sc)

\* src_x_idx = (dx - x) / scale, src_y_idx = (dy - y) / scale
ScaledSrcIdx(d, o, sc, ub) == CDiv(IntOp(d - o, ub), sc)

\* offset of the source pixel in <name>_pixels
ScaledSrcPx(dx, dy, x, y, sw, sc, ub) ==
    (ScaledSrcIdx(dy, y, sc, ub) * sw + ScaledSrcIdx(dx, x, sc, ub)) * 3

ScaledPixels(px, sw, stride, x, y, sc, w, ub) ==
    LET cols == w.dst_x1 - w.dst_x0
        n == (w.dst_y1 - w.dst_y0) * cols * 3
        dy(k) == w.dst_y0 + (((k - 1) \div 3) \div cols)
        dx(k) == w.dst_x0 + (((k - 1) \div 3) % cols)
        ch(k) == (k - 1) % 3
        srcIdx(k) == ScaledSrcPx(dx(k), dy(k), x, y, sw, sc, ub) + ch(k)
    IN  [writes |->
            [k \in 1..n |->
                Store(dy(k), dx(k), ch(k), stride, srcIdx(k),
                      PixelAt(px, srcIdx(k)))],
         reads |-> {srcIdx(k) : k \in 1..n}]

blit_rgb888_Nx(px, sw, sh, sc, dw, dh, stride, x, y, ub) ==
    LET w == ScaledClip(x, y, sw, sh, sc, dw, dh, ub)
    IN  IF ScaledFullyClipped(w) THEN NoEffect
        ELSE ScaledPixels(px, sw, stride, x, y, sc, w, ub)

\* ------------------------------------------------------------------------
\* <name>_blit_rgb888_alpha: composite over a solid background
\* ------------------------------------------------------------------------
\* variant: inverse alpha taken from 256
InvAlpha_From256(alpha) == 256 - alpha

\* const int inv_alpha = 255 - alpha
InvAlpha(alpha) == 255 - alpha

\* variant: the division by 255 replaced by a shift by 8
CompositeUnscaled_Shift8(src, alpha, bg) ==
    U8(CDiv(src * alpha + bg * InvAlpha(alpha) + 127, 256))

\* (uint8_t)((src * alpha + bg * inv_alpha + 127) / 255), unscaled branch
CompositeUnscaled(src, alpha, bg) ==
    U8(CDiv(src * alpha + bg * InvAlpha(alpha) + 127, 255))

\* variant: the rounding term is left out
CompositeScaled_NoRound(src, alpha, bg) ==
    U8(CDiv(src * alpha + bg * InvAlpha(alpha), 255))

\* variant: the background is added at full weight
CompositeScaled_Additive(src, alpha, bg) ==
    U8(CDiv(src * alpha + bg * 255 + 127, 255))

\* the same expression, as written a second time in the scaled branch
CompositeScaled(src, alpha, bg) ==
    U8(CDiv(src * alpha + bg * InvAlpha(alpha) + 127, 255))

\* variant: only scale 1 selects the unscaled branch
AlphaUnscaled_OnlyOne(sc) == sc = 1

\* if (scale <= 1): unscaled
AlphaUnscaled(sc) == sc <= 1

\* variant: the background channel is taken from the destination's first pixel
AlphaBg_FromDst(bg, ch) == IF ch \in DOMAIN dst THEN dst[ch] ELSE bg[ch + 1]

\* variant: every channel uses the red background channel
AlphaBg_Red(bg, ch) == bg[1]

\* bg_r, bg_g, bg_b by channel
AlphaBg(bg, ch) == bg[ch + 1]

\* unscaled branch

AlphaStart(x, y, sw, sh) ==
    [src_x |-> 0, src_y |-> 0, copy_w |-> sw, copy_h |-> sh,
     dst_x |-> x, dst_y |-> y]

AlphaClipLeft(s, ub) ==
    IF s.dst_x < 0
    THEN [s EXCEPT !.src_x = IntOp(-s.dst_x, ub),
                   !.copy_w = IntOp(s.copy_w + s.dst_x, ub),
                   !.dst_x = 0]
    ELSE s

AlphaClipTop(s, ub) ==
    IF s.dst_y < 0
    THEN [s EXCEPT !.src_y = IntOp(-s.dst_y, ub),
                   !.copy_h = IntOp(s.copy_h + s.dst_y, ub),
                   !.dst_y = 0]
    ELSE s

AlphaClipRight(s, dw, ub) ==
    IF IntOp(s.dst_x + s.copy_w, ub) > dw
    THEN [s EXCEPT !.copy_w = IntOp(dw - s.dst_x, ub)]
    ELSE s

AlphaClipBottom(s, dh, ub) ==
    IF IntOp(s.dst_y + s.copy_h, ub) > dh
    THEN [s EXCEPT !.copy_h = IntOp(dh - s.dst_y, ub)]
    ELSE s

AlphaClip(x, y, sw, sh, dw, dh, ub) ==
    AlphaClipBottom(
        AlphaClipRight(
            AlphaClipTop(AlphaClipLeft(AlphaStart(x, y, sw, sh), ub), ub),
            dw, ub),
        dh, ub)

AlphaFullyClipped(s) == s.copy_w <= 0 \/ s.copy_h <= 0

AlphaRows(px, sw, stride, s, alpha, bg) ==
    LET src_stride == sw * 3
        n == s.copy_h * s.copy_w * 3
        j(k) == ((k - 1) \div 3) \div s.copy_w
        i(k) == ((k - 1) \div 3) % s.copy_w
        ch(k) == (k - 1) % 3
        srcIdx(k) == (s.src_y + j(k)) * src_stride + (s.src_x * 3) + i(k) * 3
                        + ch(k)
    IN  [writes |->
            [k \in 1..n |->
                Store(s.dst_y + j(k), s.dst_x + i(k), ch(k), stride,
                      srcIdx(k),
                      CompositeUnscaled(PixelAt(px, srcIdx(k)), alpha,
                                        AlphaBg(bg, ch(k))))],
         reads |-> {srcIdx(k) : k \in 1..n}]

\* scaled branch
AlphaScaledStart(x, y, sw, sh, sc, ub) ==
    LET scaled_w == IntOp(sw * sc, ub)
        scaled_h == IntOp(sh * sc, ub)
    IN  [dst_x0 |-> x, dst_y0 |-> y,
         dst_x1 |-> IntOp(x + scaled_w, ub), dst_y1 |-> IntOp(y + scaled_h, ub)]

\* variant: the right and bottom edges are clamped one pixel too far
AlphaScaledClamp_OnePast(w, dw, dh) ==
    [dst_x0 |-> IF w.dst_x0 < 0 THEN 0 ELSE w.dst_x0,
     dst_y0 |-> IF w.dst_y0 < 0 THEN 0 ELSE w.dst_y0,
     dst_x1 |-> IF w.dst_x1 > dw + 1 THEN dw + 1 ELSE w.dst_x1,
     dst_y1 |-> IF w.dst_y1 > dh + 1 THEN dh + 1 ELSE w.dst_y1]

AlphaScaledClamp(w, dw, dh) ==
    [dst_x0 |-> IF w.dst_x0 < 0 THEN 0 ELSE w.dst_x0,
     dst_y0 |-> IF w.dst_y0 < 0 THEN 0 ELSE w.dst_y0,
     dst_x1 |-> IF w.dst_x1 > dw THEN dw ELSE w.dst_x1,
     dst_y1 |-> IF w.dst_y1 > dh THEN dh ELSE w.dst_y1]

AlphaScaledClip(x, y, sw, sh, sc, dw, dh, ub) ==
    AlphaScaledClamp(AlphaScaledStart(x, y, sw, sh, sc, ub), dw, dh)

AlphaScaledFullyClipped(w) == w.dst_x0 >= w.dst_x1 \/ w.dst_y0 >= w.dst_y1

AlphaSrcIdx(d, o, sc, ub) == CDiv(IntOp(d - o, ub), sc)

AlphaSrcPx(dx, dy, x, y, sw, sc, ub) ==
    (AlphaSrcIdx(dy, y, sc, ub) * sw + AlphaSrcIdx(dx, x, sc, ub)) * 3

AlphaScaledPixels(px, sw, stride, x, y, sc, w, alpha, bg, ub) ==
    LET cols == w.dst_x1 - w.dst_x0
        n == (w.dst_y1 - w.dst_y0) * cols * 3
        dy(k) == w.dst_y0 + (((k - 1) \div 3) \div cols)
        dx(k) == w.dst_x0 + (((k - 1) \div 3) % cols)
        ch(k) == (k - 1) % 3
        srcIdx(k) == AlphaSrcPx(dx(k), dy(k), x, y, sw, sc, ub) + ch(k)
    IN  [writes |->
            [k \in 1..n |->
                Store(dy(k), dx(k), ch(k), stride, srcIdx(k),
                      CompositeScaled(PixelAt(px, srcIdx(k)), alpha,
                                      AlphaBg(bg, ch(k))))],
         reads |-> {srcIdx(k) : k \in 1..n}]

blit_rgb888_alpha(px, sw, sh, dw, dh, stride, x, y, alpha, bg, sc, ub) ==
    IF AlphaUnscaled(sc)
    THEN LET s == AlphaClip(x, y, sw, sh, dw, dh, ub)
         IN  IF AlphaFullyClipped(s) THEN NoEffect
             ELSE AlphaRows(px, sw, stride, s, alpha, bg)
    ELSE LET w == AlphaScaledClip(x, y, sw, sh, sc, dw, dh, ub)
         IN  IF AlphaScaledFullyClipped(w) THEN NoEffect
             ELSE AlphaScaledPixels(px, sw, stride, x, y, sc, w, alpha, bg, ub)

\* ------------------------------------------------------------------------
\* Inputs
\* ------------------------------------------------------------------------
Origins == (-MaxNear..MaxNear) \cup {IntMin, IntMax}
\* (alpha, background) pairs passed to the alpha blit
Black == <<0, 0, 0>>
Amber == <<255, 128, 7>>
BlendInputs == {<<0, Amber>>, <<128, Black>>, <<128, Amber>>, <<255, Amber>>}
\* dst_stride_bytes: usually dst_w * 3; a larger stride matters from the
\* second row on
Strides(w, h) == IF h >= 2 THEN {w * 3, w * 3 + MaxPad} ELSE {w * 3}
\* --scale N, the factor baked into <name>_blit_rgb888_<N>x
Scales == 2..MaxScale
AlphaScales == 0..MaxScale

NoCall == [op |-> "none", x |-> 0, y |-> 0, alpha |-> 0,
           bg_r |-> 0, bg_g |-> 0, bg_b |-> 0, scale |-> 0]

\* two callers of the blit routines, neither in a call
Threads == {1, 2}
NoThread == [pc |-> "idle", call |-> NoCall, writes |-> << >>, next |-> 1,
             overflow |-> "none", met |-> FALSE]
NoThreads == [t \in Threads |-> NoThread]

Init ==
    /\ src_w \in 1..MaxSrcW
    /\ src_h \in 1..MaxSrcH
    /\ pixels = ImageBytes(src_w, src_h, 0)
    /\ dst_w \in 0..MaxDstW
    /\ dst_h \in 0..MaxDstH
    /\ dst_stride_bytes \in Strides(dst_w, dst_h)
    /\ dst = FreshDst(dst_h, dst_stride_bytes)
    /\ overflow = "none"
    /\ pc = "ready"
    /\ call = NoCall
    /\ writes = << >>
    /\ reads = {}
    /\ threads = NoThreads
    /\ ToolIdle
    /\ FlasherIdle

\* a store outside the destination buffer is undefined behaviour: the call
\* may return as if nothing had happened, or the process may fault
Outcomes(ws) ==
    IF \E k \in 1..Len(ws) : ws[k].off \notin DOMAIN dst
    THEN {"returned", "faulted"}
    ELSE {"returned"}

\* the call runs under one resolution of signed overflow and ends;
\* effect[ub] is what it does under resolution ub
Finish(c, effect) ==
    \E ub \in (IF effect["wrap"] = effect["wide"] THEN {"none"}
                ELSE UBOutcomes) :
        \E eff \in {IF ub = "wrap" THEN effect["wrap"] ELSE effect["wide"]} :
            /\ call' = c
            /\ writes' = eff.writes
            /\ reads' = eff.reads
            /\ dst' = ApplyWrites(dst, eff.writes)
            /\ overflow' = ub
            /\ pc' \in Outcomes(eff.writes)
            /\ UNCHANGED <<src_w, src_h, pixels, dst_w, dst_h, dst_stride_bytes>>
            /\ UNCHANGED <<threads, tool_vars, flasher_vars>>

CallBlit ==
    /\ pc = "ready"
    /\ \E x \in Origins, y \in Origins :
          Finish([NoCall EXCEPT !.op = "blit", !.x = x, !.y = y, !.scale = 1],
                 [ub \in UBOutcomes |->
                     blit_rgb888(pixels, src_w, src_h, dst_w, dst_h,
                                 dst_stride_bytes, x, y, ub)])

CallBlitScaled ==
    /\ pc = "ready"
    /\ \E x \in Origins, y \in Origins, scale \in Scales :
          Finish([NoCall EXCEPT !.op = "blit_Nx", !.x = x, !.y = y,
                                !.scale = scale],
                 [ub \in UBOutcomes |->
                     blit_rgb888_Nx(pixels, src_w, src_h, scale, dst_w, dst_h,
                                    dst_stride_bytes, x, y, ub)])

CallBlitAlpha ==
    /\ pc = "ready"
    /\ \E x \in Origins, y \in Origins, ab \in BlendInputs,
          scale \in AlphaScales :
          Finish([op |-> "blit_alpha", x |-> x, y |-> y, alpha |-> ab[1],
                  bg_r |-> ab[2][1], bg_g |-> ab[2][2], bg_b |-> ab[2][3],
                  scale |-> scale],
                 [ub \in UBOutcomes |->
                     blit_rgb888_alpha(pixels, src_w, src_h, dst_w, dst_h,
                                       dst_stride_bytes, x, y, ab[1], ab[2],
                                       scale, ub)])

Next == CallBlit \/ CallBlitScaled \/ CallBlitAlpha

Spec == Init /\ [][Next]_vars

\* ------------------------------------------------------------------------
\* Two blit calls running concurrently on one destination buffer.  A call
\* stores one pixel (three bytes) per step; the steps of the two calls
\* interleave in any order.
\* ------------------------------------------------------------------------
ConcX == {-1, 0, MaxDstW - 2, MaxDstW - 1, IntMax}
ConcY == {0, 1}
ConcBlends ==
    {[op |-> "blit", alpha |-> 0, bg |-> Black, scale |-> 1],
     [op |-> "blit_Nx", alpha |-> 0, bg |-> Black, scale |-> 2],
     [op |-> "blit_alpha", alpha |-> 128, bg |-> Amber, scale |-> 1],
     [op |-> "blit_alpha", alpha |-> 128, bg |-> Amber, scale |-> 2]}
ConcCalls ==
    {[op |-> b.op, x |-> x, y |-> y, alpha |-> b.alpha, bg_r |-> b.bg[1],
      bg_g |-> b.bg[2], bg_b |-> b.bg[3], scale |-> b.scale] :
        b \in ConcBlends, x \in ConcX, y \in ConcY}

\* the stores of call c under resolution ub of signed overflow
EffectOf(c, ub) ==
    IF c.op = "blit"
    THEN blit_rgb888(pixels, src_w, src_h, dst_w, dst_h, dst_stride_bytes,
                     c.x, c.y, ub)
    ELSE IF c.op = "blit_Nx"
    THEN blit_rgb888_Nx(pixels, src_w, src_h, c.scale, dst_w, dst_h,
                        dst_stride_bytes, c.x, c.y, ub)
    ELSE blit_rgb888_alpha(pixels, src_w, src_h, dst_w, dst_h,
                           dst_stride_bytes, c.x, c.y, c.alpha,
                           <<c.bg_r, c.bg_g, c.bg_b>>, c.scale, ub)

Other(t) == CHOOSE u \in Threads : u # t

\* thread t enters a call
Begin(t) ==
    /\ threads[t].pc = "idle"
    /\ \E c \in ConcCalls :
          \E wrap \in {EffectOf(c, "wrap").writes},
             wide \in {EffectOf(c, "wide").writes} :
              \E ub \in (IF wrap = wide THEN {"none"} ELSE UBOutcomes) :
                  \E ws \in {IF ub = "wrap" THEN wrap ELSE wide} :
                      threads' =
                          [threads EXCEPT ![t] =
                              [pc |-> IF ws = << >> THEN "returned"
                                      ELSE "running",
                               call |-> c, writes |-> ws, next |-> 1,
                               overflow |-> ub, met |-> FALSE]]
    /\ UNCHANGED <<src_w, src_h, pixels, dst, dst_w, dst_h, dst_stride_bytes,
                   overflow, pc, call, writes, reads, tool_vars,
                   flasher_vars>>

\* thread t stores its next pixel
Step(t) ==
    /\ threads[t].pc = "running"
    /\ \E th \in {threads[t]} :
          \E px \in {SubSeq(th.writes, th.next, th.next + 2)} :
              /\ dst' = ApplyWrites(dst, px)
              /\ \E end \in Outcomes(px) :
                    threads' =
                        [threads EXCEPT ![t] =
                            [th EXCEPT
                                !.next = th.next + 3,
                                !.pc = IF end = "faulted" THEN "faulted"
                                       ELSE IF th.next + 3 > Len(th.writes)
                                       THEN "returned"
                                       ELSE "running",
                                !.met = th.met
                                        \/ (/\ threads[Other(t)].pc = "running"
                                            /\ threads[Other(t)].next > 1)]]
    /\ UNCHANGED <<src_w, src_h, pixels, dst_w, dst_h, dst_stride_bytes,
                   overflow, pc, call, writes, reads, tool_vars,
                   flasher_vars>>

InitConc ==
    /\ src_w \in 1..MaxSrcW
    /\ src_h = 1
    /\ pixels = ImageBytes(src_w, src_h, 0)
    /\ dst_w = MaxDstW
    /\ dst_h = MaxDstH
    /\ dst_stride_bytes \in Strides(dst_w, dst_h)
    /\ dst = FreshDst(dst_h, dst_stride_bytes)
    /\ overflow = "none"
    /\ pc = "concurrent"
    /\ call = NoCall
    /\ writes = << >>
    /\ reads = {}
    /\ threads = NoThreads
    /\ ToolIdle
    /\ FlasherIdle

NextConc == \E t \in Threads : Begin(t) \/ Step(t)

SpecConc == InitConc /\ [][NextConc]_vars

\* ------------------------------------------------------------------------
\* The generator script.  Python strings are sequences of one-character
\* strings; a call either returns a value or raises.
\* ------------------------------------------------------------------------
Return(v) == [raised |-> "none", value |-> v]
Raise(e) == [raised |-> e, value |-> << >>]

Uppers ==
    <<"A", "B", "C", "D", "E", "F", "G", "H", "I", "J", "K", "L", "M",
      "N", "O", "P", "Q", "R", "S", "T", "U", "V", "W", "X", "Y", "Z">>
Lowers ==
    <<"a", "b", "c", "d", "e", "f", "g", "h", "i", "j", "k", "l", "m",
      "n", "o", "p", "q", "r", "s", "t", "u", "v", "w", "x", "y", "z">>
DigitChars == {"0", "1", "2", "3", "4", "5", "6", "7", "8", "9"}
UpperChars == {Uppers[i] : i \in 1..Len(Uppers)}
LowerChars == {Lowers[i] : i \in 1..Len(Lowers)}

\* the characters the pattern [^a-zA-Z0-9_] leaves alone
IdentChars == LowerChars \cup UpperChars \cup DigitChars \cup {"_"}

\* str.lower() of one character
LowerChar(c) ==
    IF c \in UpperChars
    THEN Lowers[CHOOSE i \in 1..Len(Uppers) : Uppers[i] = c]
    ELSE c

\* ------------------------------------------------------------------------
\* sanitize_c_identifier
\* ------------------------------------------------------------------------
\* re.sub(r'[^a-zA-Z0-9_]', '_', name)
ReplaceInvalid(name) ==
    [i \in 1..Len(name) |-> IF name[i] \in IdentChars THEN name[i] ELSE "_"]

\* re.sub(r'_+', '_', sanitized)
RECURSIVE CollapseUnderscores(_)
CollapseUnderscores(s) ==
    IF Len(s) <= 1 THEN s
    ELSE IF s[1] = "_" /\ s[2] = "_" THEN CollapseUnderscores(Tail(s))
    ELSE <<s[1]>> \o CollapseUnderscores(Tail(s))

RECURSIVE LStrip(_)
LStrip(s) == IF s # << >> /\ s[1] = "_" THEN LStrip(Tail(s)) ELSE s

RECURSIVE RStrip(_)
RStrip(s) ==
    IF s # << >> /\ s[Len(s)] = "_" THEN RStrip(SubSeq(s, 1, Len(s) - 1))
    ELSE s

\* variant: only leading underscores are removed
StripUnderscores_LeadingOnly(s) == LStrip(s)

\* sanitized.strip('_')
StripUnderscores(s) == RStrip(LStrip(s))

DefaultName == <<"i", "m", "a", "g", "e">>

\* variant: an empty result is passed on
DefaultIfEmpty_Skip(s) == s

\* if not sanitized: sanitized = "image"
DefaultIfEmpty(s) == IF s = << >> THEN DefaultName ELSE s

\* if sanitized[0].isdigit(): sanitized = '_' + sanitized
PrefixIfDigit(s) == IF s[1] \in DigitChars THEN <<"_">> \o s ELSE s

\* sanitized.lower()
Lower(s) == [i \in 1..Len(s) |-> LowerChar(s[i])]

sanitize_c_identifier(name) ==
    LET sanitized ==
            DefaultIfEmpty(
                StripUnderscores(CollapseUnderscores(ReplaceInvalid(name))))
    IN  IF sanitized = << >> THEN Raise("IndexError")
        ELSE Return(Lower(PrefixIfDigit(sanitized)))

\* names passed to sanitize_c_identifier
NameAlphabet == {"A", "b", "7", "_", "!", "\\"}
ExampleNames ==
    { <<"M", "y", " ", "L", "o", "g", "o", "!", "!">>,
      <<"1", "2", "3", "a", "b", "c">>,
      <<"_", "_", "_">> }
Names ==
    ExampleNames \cup UNION {[1..n -> NameAlphabet] : n \in 0..MaxNameLen}

CallSanitize ==
    /\ tool_pc = "idle"
    /\ \E name \in Names :
          /\ tool_call' = [op |-> "sanitize_c_identifier", name |-> name]
          /\ tool_ret' = sanitize_c_identifier(name)
          /\ tool_pc' = IF tool_ret'.raised = "none" THEN "returned"
                        ELSE "raised"
    /\ UNCHANGED disk
    /\ UNCHANGED <<blit_vars, flasher_vars>>

\* the blit routines are not running
BlitIdle ==
    /\ src_w = 1 /\ src_h = 1 /\ pixels = ImageBytes(1, 1, 0)
    /\ dst_w = 0 /\ dst_h = 0 /\ dst_stride_bytes = 0
    /\ dst = FreshDst(0, 0)
    /\ overflow = "none" /\ pc = "idle" /\ call = NoCall
    /\ writes = << >> /\ reads = {}
    /\ threads = NoThreads

InitTool == BlitIdle /\ ToolIdle /\ FlasherIdle

SpecSanitize == InitTool /\ [][CallSanitize]_vars
\* ------------------------------------------------------------------------
\* Generated text.  The two artifacts are sequences of lines; a line keeps
\* its fixed text and, apart, what the f-string substitutes into it: the
\* identifier (sym), the number as decimal text (val), or the byte literals
\* of a row of the pixel table (lits).  Comment lines and blank lines are
\* left out.
\* ------------------------------------------------------------------------
Ln(text, sym, val) == [text |-> text, sym |-> sym, val |-> val, lits |-> << >>]
TableLn(lits) ==
    [text |-> "    {hex_values},", sym |-> << >>, val |-> << >>, lits |-> lits]

DecDigitSeq == <<"0", "1", "2", "3", "4", "5", "6", "7", "8", "9">>
HexDigitSeq ==
    <<"0", "1", "2", "3", "4", "5", "6", "7", "8", "9",
      "a", "b", "c", "d", "e", "f">>

\* f'{n}' of an int
RECURSIVE DecDigits(_)
DecDigits(n) ==
    IF n < 10 THEN <<DecDigitSeq[n + 1]>>
    ELSE DecDigits(n \div 10) \o <<DecDigitSeq[(n % 10) + 1]>>

DecStr(n) == IF n < 0 THEN <<"-">> \o DecDigits(-n) ELSE DecDigits(n)

\* f'0x{b:02x}'
HexLiteral(b) ==
    <<"0", "x", HexDigitSeq[(b \div 16) + 1], HexDigitSeq[(b % 16) + 1]>>

\* str.upper()
UpperChar(c) ==
    IF c \in LowerChars
    THEN Uppers[CHOOSE i \in 1..Len(Lowers) : Lowers[i] = c]
    ELSE c
Upper(s) == [i \in 1..Len(s) |-> UpperChar(s[i])]

\* ------------------------------------------------------------------------
\* format_pixel_array
\* ------------------------------------------------------------------------
BytesPerLine == 16

\* variant: the slice of a row stops one byte early
FormatChunk_Short(px, i, bytes_per_line) ==
    SubSeq(px, i + 1, Min(i + bytes_per_line - 1, Len(px)))

\* chunk = pixels[i:i + bytes_per_line]
FormatChunk(px, i, bytes_per_line) ==
    SubSeq(px, i + 1, Min(i + bytes_per_line, Len(px)))

\* one row per range(0, len(pixels), bytes_per_line)
format_pixel_array(px, bytes_per_line) ==
    [n \in 1..((Len(px) + bytes_per_line - 1) \div bytes_per_line) |->
        LET chunk == FormatChunk(px, (n - 1) * bytes_per_line, bytes_per_line)
        IN  TableLn([k \in 1..Len(chunk) |-> HexLiteral(chunk[k])])]

\* ------------------------------------------------------------------------
\* generate_header and generate_source
\* ------------------------------------------------------------------------
\* scale: int = None
NoScale == [given |-> FALSE, n |-> 0]
ScaleOf(n) == [given |-> TRUE, n |-> n]

\* "if scale:" is false for None and for 0
Truthy(scale) == scale.given /\ scale.n # 0

SuffixW == <<"_", "w">>
SuffixH == <<"_", "h">>
SuffixScaledW == <<"_", "s", "c", "a", "l", "e", "d", "_", "w">>
SuffixScaledH == <<"_", "s", "c", "a", "l", "e", "d", "_", "h">>
SuffixGuard == <<"_", "H">>
SuffixScale == <<"_", "S", "C", "A", "L", "E">>
SuffixPixels == <<"_", "p", "i", "x", "e", "l", "s">>
SuffixBlit == <<"_", "b", "l", "i", "t", "_", "r", "g", "b", "8", "8", "8">>
SuffixAlpha == <<"_", "b", "l", "i", "t", "_", "r", "g", "b", "8", "8", "8", "_", "a", "l", "p", "h", "a">>

\* {name}_blit_rgb888_{scale}x
ScaledBlitName(name, scale) ==
    name \o SuffixBlit \o <<"_">> \o DecStr(scale.n) \o <<"x">>

CopyParams ==
    "uint8_t *dst, int dst_w, int dst_h, int dst_stride_bytes, int x, int y"
AlphaParams ==
    "uint8_t *dst, int dst_w, int dst_h, int dst_stride_bytes, int x, int y, uint8_t alpha, uint8_t bg_r, uint8_t bg_g, uint8_t bg_b, int scale"

Prototype(sym, params) ==
    <<Ln("void {sym}(", sym, << >>), Ln(params, << >>, << >>),
      Ln(");", << >>, << >>)>>

\* variant: the scaled declarations depend on the alpha flag
HeaderScaledPart_IfAlpha(name, scale, alpha) ==
    IF alpha
    THEN <<Ln("extern const int {sym};", name \o SuffixScaledW, << >>),
           Ln("extern const int {sym};", name \o SuffixScaledH, << >>)>>
    ELSE << >>

\* the extern declarations of the scaled dimensions
HeaderScaledPart(name, scale, alpha) ==
    IF Truthy(scale)
    THEN <<Ln("extern const int {sym};", name \o SuffixScaledW, << >>),
           Ln("extern const int {sym};", name \o SuffixScaledH, << >>)>>
    ELSE << >>

generate_header(name, width, height, scale, alpha) ==
    LET guard == Upper(name) \o SuffixGuard
    IN  <<Ln("#ifndef {sym}", guard, << >>),
          Ln("#define {sym}", guard, << >>),
          Ln("#include <stdint.h>", << >>, << >>)>>
        \o (IF Truthy(scale)
            THEN <<Ln("#define {sym} {val}", Upper(name) \o SuffixScale,
                      DecStr(scale.n))>>
            ELSE << >>)
        \o <<Ln("extern const int {sym};", name \o SuffixW, << >>),
             Ln("extern const int {sym};", name \o SuffixH, << >>)>>
        \o HeaderScaledPart(name, scale, alpha)
        \o Prototype(name \o SuffixBlit, CopyParams)
        \o (IF Truthy(scale)
            THEN Prototype(ScaledBlitName(name, scale), CopyParams)
            ELSE << >>)
        \o (IF alpha THEN Prototype(name \o SuffixAlpha, AlphaParams)
            ELSE << >>)
        \o <<Ln("#endif /* {sym} */", guard, << >>)>>

\* a function definition; body names the operator that models its lines
FunctionDef(sym, params, body, val) ==
    <<Ln("void {sym}(", sym, << >>), Ln(params, << >>, << >>),
      Ln(")", << >>, << >>), Ln("{", << >>, << >>), Ln(body, << >>, val),
      Ln("}", << >>, << >>)>>

\* {width * scale}, {height * scale}
ScaledDims(width, height, scale) == <<width * scale.n, height * scale.n>>

generate_source(name, width, height, px, scale, alpha) ==
    <<Ln("#include {sym}.h", name, << >>),
      Ln("#include <string.h>", << >>, << >>),
      Ln("const int {sym} = {val};", name \o SuffixW, DecStr(width)),
      Ln("const int {sym} = {val};", name \o SuffixH, DecStr(height))>>
    \o (IF Truthy(scale)
        THEN <<Ln("const int {sym} = {val};", name \o SuffixScaledW,
                  DecStr(ScaledDims(width, height, scale)[1])),
               Ln("const int {sym} = {val};", name \o SuffixScaledH,
                  DecStr(ScaledDims(width, height, scale)[2]))>>
        ELSE << >>)
    \o <<Ln("static const uint8_t {sym}[] = {", name \o SuffixPixels, << >>)>>
    \o format_pixel_array(px, BytesPerLine)
    \o <<Ln("};", << >>, << >>)>>
    \o FunctionDef(name \o SuffixBlit, CopyParams, "blit_rgb888", << >>)
    \o (IF Truthy(scale)
        THEN FunctionDef(ScaledBlitName(name, scale), CopyParams,
                         "blit_rgb888_Nx", DecStr(scale.n))
        ELSE << >>)
    \o (IF alpha
        THEN FunctionDef(name \o SuffixAlpha, AlphaParams,
                         "blit_rgb888_alpha", << >>)
        ELSE << >>)

\* ------------------------------------------------------------------------
\* convert_png_to_blit and main
\* ------------------------------------------------------------------------
\* what the input path names: no file, a directory, a file that is no image,
\* an image file declaring a zero width or height, an image file whose pixel
\* data is cut short, or a decodable image of w x h pixels
InputKinds ==
    {"missing", "directory", "garbage", "zero_dim", "truncated", "png"}
InputStem == <<"l", "o", "g", "o">>
BadInput(kind) == [kind |-> kind, stem |-> InputStem, w |-> 0, h |-> 0, v |-> 0]
ImageVariants == {0, 4}
InputFiles ==
    {BadInput(k) : k \in InputKinds \ {"png"}}
    \cup {[kind |-> "png", stem |-> InputStem, w |-> w, h |-> h, v |-> v] :
             w \in 1..MaxEncW, h \in 1..MaxEncH, v \in ImageVariants}

\* os.path.isfile(input_path)
IsFile(input) == input.kind \notin {"missing", "directory"}

\* Image.open(input_path) returns an image: Pillow identifies the file and
\* refuses one whose declared size has a zero
Opens(input) == input.kind \in {"truncated", "png"}

\* variant: pixel data that is cut short goes unnoticed
Decodes_Lazy(input) == input.kind \in {"truncated", "png"}

\* img.convert('RGB') loads the pixel data
Decodes(input) == input.kind = "png"

\* sys.exit(code), and the end of a call by an exception
Exit(code, d) ==
    [pc |-> "exited",
     ret |-> [raised |-> "SystemExit", value |-> <<code>>], disk |-> d]
Raised(e, d) == [pc |-> "raised", ret |-> Raise(e), disk |-> d]

\* os.makedirs(outdir) when the directory is named and does not exist
MakeOutdir(outdir, d) ==
    IF outdir # << >> /\ ~d.outdir THEN [d EXCEPT !.outdir = TRUE] ELSE d

convert_png_to_blit(input, name, outdir, scale, alpha, d) ==
    IF ~IsFile(input) THEN Exit(1, d)
    ELSE IF ~Opens(input) THEN Exit(1, d)
    ELSE IF ~Decodes(input) THEN Raised("OSError", d)
    ELSE LET width == input.w
             height == input.h
             px == ImageBytes(width, height, input.v)
             c_name == sanitize_c_identifier(name)
         IN  IF c_name.raised # "none" THEN Raised(c_name.raised, d)
             ELSE [pc |-> "returned",
                   ret |-> Return(<< >>),
                   disk |->
                       [MakeOutdir(outdir, d) EXCEPT
                           !.header = generate_header(c_name.value, width,
                                                      height, scale, alpha),
                           !.source = generate_source(c_name.value, width,
                                                      height, px, scale,
                                                      alpha)]]

\* --scale: choices=range(2, 17)
ScaleChoices == 2..16

\* argparse accepts an absent --scale and one of the choices
ScaleAccepted(scale) == ~scale.given \/ scale.n \in ScaleChoices

main(input, has_name, name, outdir, scale, alpha, d) ==
    IF ~ScaleAccepted(scale) THEN Exit(2, d)
    ELSE convert_png_to_blit(input, IF has_name THEN name ELSE input.stem,
                             outdir, scale, alpha, d)

\* arguments given to the script and to its functions
ScaleArgs ==
    {NoScale} \cup {ScaleOf(n) : n \in {m \in -1..17 : m <= 3 \/ m >= 16}}
ToolNames == {<<"l", "o", "g", "o">>, <<"M", "y", " ", "L", "o", "g", "o", "!", "!">>}
IdentNames == {<<"l", "o", "g", "o">>, <<"_", "7", "u", "p">>}
OutDirs == {<< >>, <<"g", "e", "n">>}

Land(c, r) ==
    /\ tool_call' = c
    /\ tool_pc' = r.pc
    /\ tool_ret' = r.ret
    /\ disk' = r.disk
    /\ UNCHANGED <<blit_vars, flasher_vars>>

CallMain ==
    /\ tool_pc = "idle"
    /\ \E input \in InputFiles, has_name \in BOOLEAN, name \in ToolNames,
          outdir \in OutDirs, scale \in ScaleArgs, alpha \in BOOLEAN :
          /\ has_name \/ name = InputStem
          /\ Land([op |-> "main", input |-> input, has_name |-> has_name,
                   name |-> name, outdir |-> outdir, scale |-> scale,
                   alpha |-> alpha, disk_before |-> disk],
                  main(input, has_name, name, outdir, scale, alpha, disk))

CallConvert ==
    /\ tool_pc = "idle"
    /\ \E input \in InputFiles, name \in ToolNames, outdir \in OutDirs,
          scale \in ScaleArgs, alpha \in BOOLEAN :
          Land([op |-> "convert_png_to_blit", input |-> input,
                has_name |-> TRUE, name |-> name, outdir |-> outdir,
                scale |-> scale, alpha |-> alpha, disk_before |-> disk],
               convert_png_to_blit(input, name, outdir, scale, alpha, disk))

CallGenerateHeader ==
    /\ tool_pc = "idle"
    /\ \E name \in IdentNames, w \in 1..MaxEncW, h \in 1..MaxEncH,
          scale \in ScaleArgs, alpha \in BOOLEAN :
          Land([op |-> "generate_header", name |-> name, w |-> w, h |-> h,
                v |-> 0, scale |-> scale, alpha |-> alpha,
                disk_before |-> disk],
               [pc |-> "returned",
                ret |-> Return(generate_header(name, w, h, scale, alpha)),
                disk |-> disk])

CallGenerateSource ==
    /\ tool_pc = "idle"
    /\ \E name \in IdentNames, w \in 1..MaxEncW, h \in 1..MaxEncH,
          v \in ImageVariants, scale \in ScaleArgs, alpha \in BOOLEAN :
          Land([op |-> "generate_source", name |-> name, w |-> w, h |-> h,
                v |-> v, scale |-> scale, alpha |-> alpha,
                disk_before |-> disk],
               [pc |-> "returned",
                ret |-> Return(generate_source(name, w, h,
                                               ImageBytes(w, h, v), scale,
                                               alpha)),
                disk |-> disk])

\* the output directory may or may not exist before the run
InitGen ==
    /\ BlitIdle
    /\ FlasherIdle
    /\ tool_pc = "idle"
    /\ tool_call = NoToolCall
    /\ tool_ret = Return(<< >>)
    /\ disk \in {NoDisk, [NoDisk EXCEPT !.outdir = TRUE]}

NextTool ==
    CallMain \/ CallConvert \/ CallGenerateHeader \/ CallGenerateSource

SpecTool == InitGen /\ [][NextTool]_vars

\* ------------------------------------------------------------------------
\* The blend expression on its own: one channel composited by the
\* expression of the unscaled or of the scaled branch, for channel values
\* and alpha of the uint8_t range.
\* ------------------------------------------------------------------------
\* channel values tried: two at every ChanStep, and the top of the range;
\* every alpha
CallComposite ==
    /\ pc = "idle"
    /\ \E channels \in {{v \in 0..255 : v % ChanStep \in {0, 1}}
                            \cup {254, 255}} :
          \E branch \in {"unscaled", "scaled"}, src \in channels,
             alpha \in 0..255, bg \in channels :
              /\ call' = [op |-> "composite", branch |-> branch, src |-> src,
                          alpha |-> alpha, bg |-> bg]
              /\ writes' =
                    <<Store(0, 0, 0, 0, 0,
                            IF branch = "unscaled"
                            THEN CompositeUnscaled(src, alpha, bg)
                            ELSE CompositeScaled(src, alpha, bg))>>
    /\ pc' = "returned"
    /\ UNCHANGED <<src_w, src_h, pixels, dst, dst_w, dst_h, dst_stride_bytes,
                   overflow, reads, threads, tool_vars, flasher_vars>>

InitBlend == BlitIdle /\ ToolIdle /\ FlasherIdle

SpecBlend == InitBlend /\ [][CallComposite]_vars

\* ------------------------------------------------------------------------
\* The flasher window (flasher/p3a_flasher.py).  Handlers of the Tk main
\* thread run one at a time; the download, load and flash threads run
\* beside them, a statement group per step.  A message is
\* [type, success, op]; _process_messages handles the queue a message per
\* step.  Widget texts and styles, and the console's 'log' lines other than
\* the first of a flash, are left out.
\* ------------------------------------------------------------------------
\* the bundled firmware directory when it has every required file, else None
get_embedded_firmware_dir == IF "firmware" \in dirs THEN "firmware" ELSE "None"

\* variant: cleanup removes whatever firmware_dir names
Removable_Always(dir) == TRUE

\* not embedded or self.firmware_dir != embedded
Removable(dir) ==
    get_embedded_firmware_dir = "None" \/ dir # get_embedded_firmware_dir

\* the body of _scan_ports, with `pending` timers still scheduled and
\* is_flashing = flashing when it runs
_scan_ports(pending, flashing) ==
    /\ selected_port' \in {"COM3", "No ports found"}
    /\ scan_timers' = IF ~flashing THEN pending + 1 ELSE pending

\* _scan_ports called by its timer or by the refresh button
ScanPorts ==
    /\ window = "open"
    /\ \E by \in {"timer", "button"} :
          /\ by = "timer" => scan_timers > 0
          /\ by = "button" => scan_timers < MaxTimers
          /\ _scan_ports(IF by = "timer" THEN scan_timers - 1
                         ELSE scan_timers, is_flashing)
    /\ UNCHANGED <<window, is_flashing, firmware_dir, releases, msg_queue,
                   workers, fetch, dirs, dones>>
    /\ UNCHANGED <<blit_vars, tool_vars>>

\* _do_flash(port, firmware_dir) for flash k, the other threads being ws
_do_flash(k, dir, ws) ==
    /\ firmware_dir' = dir
    /\ is_flashing' = TRUE
    /\ workers' = ws \cup {[op |-> k, kind |-> "flash", pc |-> "start",
                            dir |-> dir]}

\* variant: the flag is left for the download thread to set
_download_and_flash_NoFlag(k) ==
    /\ is_flashing' = is_flashing
    /\ firmware_dir' = firmware_dir
    /\ workers' = workers \cup {[op |-> k, kind |-> "download",
                                 pc |-> "mkdtemp", dir |-> "None"]}

_download_and_flash(k) ==
    /\ is_flashing' = TRUE
    /\ firmware_dir' = firmware_dir
    /\ workers' = workers \cup {[op |-> k, kind |-> "download",
                                 pc |-> "mkdtemp", dir |-> "None"]}

_load_local_and_flash(k) ==
    /\ is_flashing' = TRUE
    /\ firmware_dir' = firmware_dir
    /\ workers' = workers \cup {[op |-> k, kind |-> "load", pc |-> "open",
                                 dir |-> "None"]}

\* the flash button's command
_start_flash ==
    /\ window = "open"
    /\ ~is_flashing
    /\ selected_port = "COM3"
    /\ Len(dones) < MaxOps
    /\ \E k \in {Len(dones) + 1}, source \in {"embedded", "github", "local"} :
          /\ IF source = "embedded"
             THEN /\ get_embedded_firmware_dir # "None"
                  /\ _do_flash(k, get_embedded_firmware_dir, workers)
             ELSE IF source = "github"
             THEN /\ releases
                  /\ _download_and_flash(k)
             ELSE _load_local_and_flash(k)
          /\ dones' = Append(dones, 0)
    /\ UNCHANGED <<window, releases, selected_port, msg_queue, scan_timers,
                   fetch, dirs>>
    /\ UNCHANGED <<blit_vars, tool_vars>>

\* self.msg_queue.put(('done', (success, message))) of flash k
PutDone(k, success) ==
    /\ msg_queue' = Append(msg_queue, [type |-> "done", success |-> success,
                                        op |-> k])
    /\ dones' = [dones EXCEPT ![k] = @ + 1]

\* the download thread of _download_and_flash
Download(w) ==
    /\ window = "open"
    /\ w \in workers /\ w.kind = "download"
    /\ \/ /\ w.pc = "mkdtemp"
          /\ \/ /\ PutDone(w.op, FALSE)
                /\ workers' = workers \ {w}
                /\ UNCHANGED <<firmware_dir, dirs>>
             \/ /\ dirs' = dirs \cup {TempDirs[w.op]}
                /\ firmware_dir' = TempDirs[w.op]
                /\ workers' = (workers \ {w})
                      \cup {[w EXCEPT !.pc = "files", !.dir = TempDirs[w.op]]}
                /\ UNCHANGED <<msg_queue, dones>>
          /\ UNCHANGED is_flashing
       \/ /\ w.pc = "files"
          /\ \/ /\ PutDone(w.op, FALSE)
                /\ workers' = workers \ {w}
             \/ /\ workers' = (workers \ {w}) \cup {[w EXCEPT !.pc = "do_flash"]}
                /\ UNCHANGED <<msg_queue, dones>>
          /\ UNCHANGED <<is_flashing, firmware_dir, dirs>>
       \/ /\ w.pc = "do_flash"
          /\ \/ /\ _do_flash(w.op, w.dir, workers \ {w})
                /\ UNCHANGED <<msg_queue, dones>>
             \/ /\ firmware_dir' = w.dir
                /\ is_flashing' = TRUE
                /\ PutDone(w.op, FALSE)
                /\ workers' = workers \ {w}
          /\ UNCHANGED dirs
    /\ UNCHANGED <<window, releases, selected_port, scan_timers, fetch>>
    /\ UNCHANGED <<blit_vars, tool_vars>>

\* the load thread of _load_local_and_flash, with _extract_zip
Load(w) ==
    /\ window = "open"
    /\ w \in workers /\ w.kind = "load"
    /\ \/ /\ w.pc = "open"
          /\ \/ /\ PutDone(w.op, FALSE)
                /\ workers' = workers \ {w}
                /\ UNCHANGED <<firmware_dir, dirs>>
             \/ /\ dirs' = dirs \cup {TempDirs[w.op]}
                /\ firmware_dir' = TempDirs[w.op]
                /\ workers' = (workers \ {w})
                      \cup {[w EXCEPT !.pc = "extract", !.dir = TempDirs[w.op]]}
                /\ UNCHANGED <<msg_queue, dones>>
          /\ UNCHANGED is_flashing
       \/ /\ w.pc = "extract"
          /\ \/ /\ PutDone(w.op, FALSE)
                /\ workers' = workers \ {w}
             \/ /\ workers' = (workers \ {w}) \cup {[w EXCEPT !.pc = "do_flash"]}
                /\ UNCHANGED <<msg_queue, dones>>
          /\ UNCHANGED <<is_flashing, firmware_dir, dirs>>
       \/ /\ w.pc = "do_flash"
          /\ \/ /\ _do_flash(w.op, w.dir, workers \ {w})
                /\ UNCHANGED <<msg_queue, dones>>
             \/ /\ firmware_dir' = w.dir
                /\ is_flashing' = TRUE
                /\ PutDone(w.op, FALSE)
                /\ workers' = workers \ {w}
          /\ UNCHANGED dirs
    /\ UNCHANGED <<window, releases, selected_port, scan_timers, fetch>>
    /\ UNCHANGED <<blit_vars, tool_vars>>

\* variant: a failure of esptool ends the thread without a 'done' message
Flash_SilentFailure(w) ==
    /\ window = "open"
    /\ w \in workers /\ w.kind = "flash"
    /\ \/ /\ w.pc = "start"
          /\ msg_queue' = Append(msg_queue, [type |-> "log", success |-> TRUE,
                                              op |-> w.op])
          /\ workers' = (workers \ {w}) \cup {[w EXCEPT !.pc = "esptool"]}
          /\ UNCHANGED dones
       \/ /\ w.pc = "esptool"
          /\ \/ PutDone(w.op, TRUE)
             \/ UNCHANGED <<msg_queue, dones>>
          /\ workers' = workers \ {w}
    /\ UNCHANGED <<window, is_flashing, firmware_dir, releases, selected_port,
                   scan_timers, fetch, dirs>>
    /\ UNCHANGED <<blit_vars, tool_vars>>

\* FlashWorker.flash: esptool.main returns, or raises an Exception
Flash(w) ==
    /\ window = "open"
    /\ w \in workers /\ w.kind = "flash"
    /\ \/ /\ w.pc = "start"
          /\ msg_queue' = Append(msg_queue, [type |-> "log", success |-> TRUE,
                                              op |-> w.op])
          /\ workers' = (workers \ {w}) \cup {[w EXCEPT !.pc = "esptool"]}
          /\ UNCHANGED dones
       \/ /\ w.pc = "esptool"
          /\ \E success \in BOOLEAN : PutDone(w.op, success)
          /\ workers' = workers \ {w}
    /\ UNCHANGED <<window, is_flashing, firmware_dir, releases, selected_port,
                   scan_timers, fetch, dirs>>
    /\ UNCHANGED <<blit_vars, tool_vars>>

\* the thread of _fetch_releases
FetchReleases ==
    /\ window = "open"
    /\ fetch = "running"
    /\ \E msg \in {[type |-> "releases", success |-> TRUE, op |-> 0],
                   [type |-> "releases", success |-> FALSE, op |-> 0],
                   [type |-> "releases_error", success |-> FALSE, op |-> 0]} :
          msg_queue' = Append(msg_queue, msg)
    /\ fetch' = "finished"
    /\ UNCHANGED <<window, is_flashing, firmware_dir, releases, selected_port,
                   scan_timers, workers, dirs, dones>>
    /\ UNCHANGED <<blit_vars, tool_vars>>

\* _process_messages: the next message of the queue
_process_messages ==
    /\ window = "open"
    /\ msg_queue # << >>
    /\ msg_queue' = Tail(msg_queue)
    /\ \E m \in {Head(msg_queue)} :
          IF m.type = "done"
          THEN /\ is_flashing' = FALSE
               /\ _scan_ports(scan_timers, FALSE)
               /\ IF firmware_dir # "None" /\ firmware_dir \in dirs
                  THEN /\ dirs' = IF Removable(firmware_dir)
                                  THEN dirs \ {firmware_dir} ELSE dirs
                       /\ firmware_dir' = "None"
                  ELSE UNCHANGED <<dirs, firmware_dir>>
               /\ UNCHANGED releases
          ELSE /\ releases' = IF m.type = "releases" THEN m.success
                              ELSE releases
               /\ UNCHANGED <<is_flashing, selected_port, scan_timers, dirs,
                              firmware_dir>>
    /\ UNCHANGED <<window, workers, fetch, dones>>
    /\ UNCHANGED <<blit_vars, tool_vars>>

\* destroy(): the window closes and the process, with its daemon threads, ends
destroy ==
    /\ window = "open"
    /\ window' = "destroyed"
    /\ dirs' = IF /\ firmware_dir # "None" /\ firmware_dir \in dirs
                  /\ Removable(firmware_dir)
               THEN dirs \ {firmware_dir} ELSE dirs
    /\ UNCHANGED <<is_flashing, firmware_dir, releases, selected_port,
                   msg_queue, scan_timers, workers, fetch, dones>>
    /\ UNCHANGED <<blit_vars, tool_vars>>

\* the window after P3AFlasher.__init__: the first port scan has run and
\* scheduled itself, the releases are being fetched
InitFlasher ==
    /\ BlitIdle /\ ToolIdle
    /\ window = "open"
    /\ is_flashing = FALSE
    /\ firmware_dir = "None"
    /\ releases = FALSE
    /\ selected_port \in {"COM3", "No ports found"}
    /\ msg_queue = << >>
    /\ scan_timers = 1
    /\ workers = {}
    /\ fetch = "running"
    /\ dirs \in {{}, {"firmware"}}
    /\ dones = << >>

\* a step of a background thread of flash k
WorkerStep(k) ==
    \E w \in workers : w.op = k /\ (Download(w) \/ Load(w) \/ Flash(w))

NextRunning ==
    \/ ScanPorts
    \/ _start_flash
    \/ \E w \in workers : Download(w)
    \/ \E w \in workers : Load(w)
    \/ \E w \in workers : Flash(w)
    \/ FetchReleases
    \/ _process_messages

NextFlasher == NextRunning \/ destroy

SpecFlasher == InitFlasher /\ [][NextFlasher]_vars

\* the window stays open: threads keep running and the Tk main loop keeps
\* calling _process_messages every 100 ms
SpecFlasherLive ==
    /\ InitFlasher
    /\ [][NextRunning]_vars
    /\ WF_vars(_process_messages)
    /\ \A k \in 1..MaxOps : WF_vars(WorkerStep(k))

\* ------------------------------------------------------------------------
\* Vocabulary of the properties
\* ------------------------------------------------------------------------
Returned(op) == pc = "returned" /\ call.op = op

\* destination pixels stored to by the call, as (column, row)
WrittenPixels(ws) == {<<ws[k].col, ws[k].row>> : k \in 1..Len(ws)}

\* where each store goes and which source byte it comes from
StoreTargets(ws) ==
    {[row |-> ws[k].row, col |-> ws[k].col, ch |-> ws[k].ch,
      off |-> ws[k].off, src |-> ws[k].src] : k \in 1..Len(ws)}

Rect(x0, x1, y0, y1) == {<<c, r>> : c \in x0..(x1 - 1), r \in y0..(y1 - 1)}

\* byte of the destination at pixel (c, r), channel ch
DstByte(buf, c, r, ch) == buf[r * dst_stride_bytes + c * 3 + ch]

\* byte of the stored image at pixel (c, r), channel ch
SrcByte(c, r, ch) == pixels[(r * src_w + c) * 3 + ch + 1]

\* scale in effect for the call: 1 unless a scaled path runs
EffScale == IF call.scale <= 1 THEN 1 ELSE call.scale

\* the clipping formula of the specification, over the mathematical integers
FormulaCopyW == Min(src_w - Max(0, -call.x), dst_w - Max(call.x, 0))
FormulaCopyH == Min(src_h - Max(0, -call.y), dst_h - Max(call.y, 0))

BufferBefore == FreshDst(dst_h, dst_stride_bytes)

\* the resolutions of signed overflow the returned call is consistent with
Resolutions == IF overflow = "none" THEN UBOutcomes ELSE {overflow}

\* ------------------------------------------------------------------------
\* C1: every destination pixel written by any of the three operations has
\* column 0 <= c < dst_w and row 0 <= r < dst_h (and lies in the buffer),
\* for every origin of the int range.
\* ------------------------------------------------------------------------
C1_WritesInBounds ==
    pc = "returned" =>
        \A k \in 1..Len(writes) :
            /\ 0 <= writes[k].col /\ writes[k].col < dst_w
            /\ 0 <= writes[k].row /\ writes[k].row < dst_h
            /\ writes[k].off \in DOMAIN dst

\* ------------------------------------------------------------------------
\* C2: blit_copy content.  With a non-empty clipped window, destination
\* pixel (max(x,0)+i, max(y,0)+j) ends equal to source pixel
\* (max(0,-x)+i, max(0,-y)+j), rows addressed with dst_stride_bytes; at
\* origin (0,0) with a destination of the image's size every destination
\* pixel equals the source pixel and exactly width*height*3 bytes are stored.
\* ------------------------------------------------------------------------
C2_CopyContent ==
    (Returned("blit") /\ FormulaCopyW > 0 /\ FormulaCopyH > 0) =>
        /\ \A j \in 0..(FormulaCopyH - 1), i \in 0..(FormulaCopyW - 1),
              ch \in 0..2 :
              DstByte(dst, Max(call.x, 0) + i, Max(call.y, 0) + j, ch)
                  = SrcByte(Max(0, -call.x) + i, Max(0, -call.y) + j, ch)
        /\ (call.x = 0 /\ call.y = 0 /\ dst_w = src_w /\ dst_h = src_h) =>
              /\ Len(writes) = src_w * src_h * 3
              /\ \A c \in 0..(dst_w - 1), r \in 0..(dst_h - 1), ch \in 0..2 :
                    DstByte(dst, c, r, ch) = SrcByte(c, r, ch)

C2_Witness ==
    /\ Returned("blit")
    /\ call.x = -1 /\ call.y = 1
    /\ src_w = 2 /\ src_h = 2 /\ dst_w = 3 /\ dst_h = 2
    /\ dst_stride_bytes = 9 + MaxPad
    /\ Len(writes) = 3
    /\ DstByte(dst, 0, 1, 0) = SrcByte(1, 0, 0)

\* ------------------------------------------------------------------------
\* C3: for all (x, y), blit_copy stores to copy_w*copy_h destination pixels,
\* copy_w = min(width - max(0,-x), dst_w - max(x,0)) and copy_h likewise,
\* and to none when copy_w <= 0 or copy_h <= 0.
\* ------------------------------------------------------------------------
C3_CopyCount ==
    Returned("blit") =>
        /\ Cardinality(WrittenPixels(writes))
              = (IF FormulaCopyW <= 0 \/ FormulaCopyH <= 0 THEN 0
                 ELSE FormulaCopyW * FormulaCopyH)
        /\ Len(writes) = 3 * Cardinality(WrittenPixels(writes))

\* ------------------------------------------------------------------------
\* C4: when the placed rectangle misses the destination (x >= dst_w, or
\* y >= dst_h, or x <= -width*s, or y <= -height*s) each operation stores
\* nothing and leaves the destination buffer as it was.
\* ------------------------------------------------------------------------
C4_OffscreenNoWrite ==
    (/\ pc = "returned"
     /\ \/ call.x >= dst_w
        \/ call.y >= dst_h
        \/ call.x <= -(src_w * EffScale)
        \/ call.y <= -(src_h * EffScale)) =>
        /\ writes = << >>
        /\ dst = BufferBefore

\* ------------------------------------------------------------------------
\* C5: blit_copy_scaled with scale s stores to exactly the pixels of
\* [max(x,0), min(x+width*s, dst_w)) x [max(y,0), min(y+height*s, dst_h));
\* each ends equal to source pixel ((dx-x) div s, (dy-y) div s), with
\* dx-x >= 0 and dy-y >= 0; unclipped, source pixel (i, j) fills the s x s
\* block at columns x+i*s .. x+i*s+s-1, rows y+j*s .. y+j*s+s-1.
\* ------------------------------------------------------------------------
C5_Window ==
    Rect(Max(call.x, 0), Min(call.x + src_w * call.scale, dst_w),
         Max(call.y, 0), Min(call.y + src_h * call.scale, dst_h))

C5_Unclipped ==
    /\ call.x >= 0 /\ call.x + src_w * call.scale <= dst_w
    /\ call.y >= 0 /\ call.y + src_h * call.scale <= dst_h

C5_ScaledContent ==
    Returned("blit_Nx") =>
        /\ WrittenPixels(writes) = C5_Window
        /\ \A p \in C5_Window :
              /\ p[1] - call.x >= 0
              /\ p[2] - call.y >= 0
              /\ \A ch \in 0..2 :
                    DstByte(dst, p[1], p[2], ch)
                        = SrcByte((p[1] - call.x) \div call.scale,
                                  (p[2] - call.y) \div call.scale, ch)
        /\ C5_Unclipped =>
              \A i \in 0..(src_w - 1), j \in 0..(src_h - 1),
                 a \in 0..(call.scale - 1), b \in 0..(call.scale - 1),
                 ch \in 0..2 :
                    DstByte(dst, call.x + i * call.scale + a,
                            call.y + j * call.scale + b, ch) = SrcByte(i, j, ch)

\* the example of the specification: a 2x1 image at scale 2 into a 4x1
\* destination at (0,0)
C5_Witness ==
    /\ Returned("blit_Nx")
    /\ call.scale = 2 /\ call.x = 0 /\ call.y = 0
    /\ src_w = 2 /\ src_h = 1 /\ dst_w = 4 /\ dst_h = 1
    /\ Cardinality(WrittenPixels(writes)) = 4
    /\ \A ch \in 0..2 :
          /\ DstByte(dst, 0, 0, ch) = SrcByte(0, 0, ch)
          /\ DstByte(dst, 1, 0, ch) = SrcByte(0, 0, ch)
          /\ DstByte(dst, 2, 0, ch) = SrcByte(1, 0, ch)
          /\ DstByte(dst, 3, 0, ch) = SrcByte(1, 0, ch)

\* ------------------------------------------------------------------------
\* C6: blit_blend with alpha = 255 leaves the destination byte-identical to
\* blit_copy (scale <= 1) or to blit_copy_scaled with the same scale
\* (scale > 1), for any background colour.
\* ------------------------------------------------------------------------
C6_Reference(ub) ==
    IF call.scale <= 1
    THEN blit_rgb888(pixels, src_w, src_h, dst_w, dst_h, dst_stride_bytes,
                     call.x, call.y, ub)
    ELSE blit_rgb888_Nx(pixels, src_w, src_h, call.scale, dst_w, dst_h,
                        dst_stride_bytes, call.x, call.y, ub)

C6_OpaqueEqualsCopy ==
    (Returned("blit_alpha") /\ call.alpha = 255) =>
        \A ub \in Resolutions :
            dst = ApplyWrites(BufferBefore, C6_Reference(ub).writes)

C6_Witness ==
    /\ Returned("blit_alpha") /\ call.alpha = 255
    /\ call.scale = 2 /\ call.bg_r = 255
    /\ call.x = -1 /\ call.y = 0
    /\ src_w = 2 /\ dst_w = 4 /\ dst_h = 2
    /\ Cardinality(WrittenPixels(writes)) = 6
    /\ dst # BufferBefore

\* ------------------------------------------------------------------------
\* C7: blit_blend with alpha = 0 ignores the image: every byte it stores is
\* the background channel, and any other image of the same dimensions gives
\* the same destination buffer.
\* ------------------------------------------------------------------------
OtherImages == {ImageBytes(src_w, src_h, v) : v \in {1, 5}}

CallBg == <<call.bg_r, call.bg_g, call.bg_b>>

AlphaWith(px, alpha, sc, ub) ==
    blit_rgb888_alpha(px, src_w, src_h, dst_w, dst_h, dst_stride_bytes,
                      call.x, call.y, alpha, CallBg, sc, ub)

C7_TransparentIgnoresImage ==
    (Returned("blit_alpha") /\ call.alpha = 0) =>
        /\ \A k \in 1..Len(writes) :
              /\ writes[k].val = CallBg[writes[k].ch + 1]
              /\ writes[k].off \in DOMAIN dst =>
                    dst[writes[k].off] = CallBg[writes[k].ch + 1]
        /\ \A px \in OtherImages, ub \in Resolutions :
              \A other \in {AlphaWith(px, call.alpha, call.scale, ub)} :
                  /\ dst = ApplyWrites(BufferBefore, other.writes)
                  /\ StoreTargets(other.writes) = StoreTargets(writes)

C7_Witness ==
    /\ Returned("blit_alpha") /\ call.alpha = 0
    /\ CallBg = Amber /\ call.scale = 3
    /\ call.x = 1 /\ call.y = -1
    /\ src_w = 2 /\ src_h = 2 /\ dst_w = 3 /\ dst_h = 2
    /\ Cardinality(WrittenPixels(writes)) = 4
    /\ DstByte(dst, 1, 0, 0) = 255
    /\ DstByte(dst, 2, 1, 1) = 128
    /\ DstByte(dst, 0, 0, 0) = FillByte

\* ------------------------------------------------------------------------
\* C8: for 0 < alpha < 255 every channel blit_blend stores equals
\* (src*alpha + bg*(255-alpha) + 127) div 255, src being the channel of the
\* mapped source pixel; alpha = 128, source (200,100,50), background (0,0,0)
\* gives (100,50,25).
\* ------------------------------------------------------------------------
C8_MappedSrc(w) ==
    SrcByte((w.col - call.x) \div EffScale, (w.row - call.y) \div EffScale,
            w.ch)

C8_MappedPixel(w) ==
    <<pixels[w.src - w.ch + 1], pixels[w.src - w.ch + 2],
      pixels[w.src - w.ch + 3]>>

C8_BlendFormula ==
    (Returned("blit_alpha") /\ 0 < call.alpha /\ call.alpha < 255) =>
        \A k \in 1..Len(writes) :
            /\ writes[k].val =
                  (C8_MappedSrc(writes[k]) * call.alpha
                     + CallBg[writes[k].ch + 1] * (255 - call.alpha) + 127)
                  \div 255
            /\ (/\ call.alpha = 128
                /\ CallBg = <<0, 0, 0>>
                /\ C8_MappedPixel(writes[k]) = <<200, 100, 50>>) =>
                  writes[k].val = <<100, 50, 25>>[writes[k].ch + 1]

C8_Witness ==
    /\ Returned("blit_alpha") /\ call.alpha = 128
    /\ CallBg = Black /\ call.scale = 2
    /\ call.x = 0 /\ call.y = 0 /\ dst_w >= 2 /\ dst_h >= 1
    /\ DstByte(dst, 1, 0, 0) = 100
    /\ DstByte(dst, 1, 0, 1) = 50
    /\ DstByte(dst, 1, 0, 2) = 25

\* ------------------------------------------------------------------------
\* C9: in blit_blend every scale <= 1 (0 and 1 in particular) means
\* unscaled: the calls store the same bytes and leave the same buffer, and
\* the image is placed at its own width x height.
\* ------------------------------------------------------------------------
C9_UnscaledScales == {sc \in {-1, 0, 1} : sc # call.scale}

C9_ScaleZeroIsOne ==
    (Returned("blit_alpha") /\ call.scale <= 1) =>
        /\ \A sc \in C9_UnscaledScales, ub \in Resolutions :
              \A other \in {AlphaWith(pixels, call.alpha, sc, ub).writes} :
                  /\ other = writes
                  /\ ApplyWrites(BufferBefore, other) = dst
        /\ WrittenPixels(writes)
              \subseteq Rect(call.x, call.x + src_w, call.y, call.y + src_h)
        /\ (/\ call.x >= 0 /\ call.x + src_w <= dst_w
            /\ call.y >= 0 /\ call.y + src_h <= dst_h) =>
              WrittenPixels(writes)
                  = Rect(call.x, call.x + src_w, call.y, call.y + src_h)

C9_Witness ==
    /\ Returned("blit_alpha") /\ call.scale = 0
    /\ call.alpha = 128 /\ call.x = 1 /\ call.y = 0
    /\ src_w = 2 /\ src_h = 2 /\ dst_w = 3 /\ dst_h = 2
    /\ WrittenPixels(writes) = Rect(1, 3, 0, 2)

\* ------------------------------------------------------------------------
\* C10: for every alpha, blit_blend with scale s > 1 stores to the same
\* destination pixels as blit_copy_scaled with scale s, each from the same
\* source pixel ((dx-x) div s, (dy-y) div s); with scale <= 1 it stores to
\* the same destination pixels as blit_copy.
\* ------------------------------------------------------------------------
C10_SameWindowAndMapping ==
    Returned("blit_alpha") =>
        /\ \A ub \in Resolutions :
              StoreTargets(writes) = StoreTargets(C6_Reference(ub).writes)
        /\ call.scale > 1 =>
              \A k \in 1..Len(writes) :
                  writes[k].src =
                      (((writes[k].row - call.y) \div call.scale) * src_w
                         + ((writes[k].col - call.x) \div call.scale)) * 3
                      + writes[k].ch

C10_Witness ==
    /\ Returned("blit_alpha") /\ call.alpha = 128
    /\ call.scale = 3 /\ call.x = -1 /\ call.y = -1
    /\ src_w = 2 /\ src_h = 1 /\ dst_w = 4 /\ dst_h = 2
    /\ Cardinality(WrittenPixels(writes)) = 8
    /\ StoreTargets(writes) # {}

\* ------------------------------------------------------------------------
\* C11: every blit operation is total: for any geometry (negative origin,
\* partly or fully off-screen, empty clipped window) the call ends by
\* returning normally, never by a fault.
\* ------------------------------------------------------------------------
C11_Total == pc # "ready" => pc = "returned"

\* ------------------------------------------------------------------------
\* C12: a call of any of the three operations stores to at most
\* width*height*s*s destination pixels, s the scale in effect (1 for
\* blit_copy and for blit_blend with scale <= 1), however large the
\* destination; every pixel of the clipped window is stored to exactly once
\* (one store per channel), and no pixel is stored to twice.
\* ------------------------------------------------------------------------
C12_Window ==
    Rect(Max(call.x, 0), Min(call.x + src_w * EffScale, dst_w),
         Max(call.y, 0), Min(call.y + src_h * EffScale, dst_h))

C12_StoresTo(p, ch) ==
    {k \in 1..Len(writes) :
        writes[k].col = p[1] /\ writes[k].row = p[2] /\ writes[k].ch = ch}

C12_PixelBound ==
    pc # "ready" =>
        /\ Cardinality(WrittenPixels(writes))
              <= src_w * src_h * EffScale * EffScale
        /\ Len(writes) = 3 * Cardinality(WrittenPixels(writes))
        /\ \A p \in C12_Window, ch \in 0..2 :
              Cardinality(C12_StoresTo(p, ch)) = 1

C12_Witness ==
    /\ Returned("blit_Nx") /\ call.scale = 2
    /\ call.x = 1 /\ call.y = 0
    /\ src_w = 1 /\ src_h = 1 /\ dst_w = 4 /\ dst_h = 2
    /\ Cardinality(WrittenPixels(writes)) = 4
    /\ Len(writes) = 12

\* ------------------------------------------------------------------------
\* C13: each operation changes only destination bytes of pixels inside its
\* clipped window: every store goes to a byte of a window pixel, and every
\* byte of the destination that belongs to a pixel outside the window, and
\* every padding byte at offsets dst_w*3 .. dst_stride_bytes-1 of a row, is
\* the same after the call as before it.
\* ------------------------------------------------------------------------
C13_WindowBytes ==
    {p[2] * dst_stride_bytes + p[1] * 3 + ch : p \in C12_Window, ch \in 0..2}

C13_PaddingBytes ==
    {r * dst_stride_bytes + b :
        r \in 0..(dst_h - 1), b \in (dst_w * 3)..(dst_stride_bytes - 1)}

C13_Frame ==
    pc # "ready" =>
        /\ \A k \in 1..Len(writes) :
              <<writes[k].col, writes[k].row>> \in C12_Window
        /\ \A o \in DOMAIN dst :
              o \notin C13_WindowBytes => dst[o] = BufferBefore[o]
        /\ \A o \in C13_PaddingBytes : dst[o] = BufferBefore[o]

\* ------------------------------------------------------------------------
\* Vocabulary of the generator's properties
\* ------------------------------------------------------------------------
ToolOp(ops) == tool_pc # "idle" /\ tool_call.op \in ops

\* a run that wrote both artifacts, or a direct call that returned one
Converted == ToolOp({"main", "convert_png_to_blit"}) /\ tool_pc = "returned"
GotHeader == ToolOp({"generate_header"}) \/ Converted
GotSource == ToolOp({"generate_source"}) \/ Converted

HeaderText == IF Converted THEN disk.header ELSE tool_ret.value
SourceText == IF Converted THEN disk.source ELSE tool_ret.value

\* the identifier, the image and its dimensions the text was generated for
GenName ==
    IF Converted
    THEN sanitize_c_identifier(IF tool_call.has_name THEN tool_call.name
                               ELSE tool_call.input.stem).value
    ELSE tool_call.name
GenW == IF Converted THEN tool_call.input.w ELSE tool_call.w
GenH == IF Converted THEN tool_call.input.h ELSE tool_call.h
GenV == IF Converted THEN tool_call.input.v ELSE tool_call.v

\* channel k of pixel (c, r) of the image
GenPixel(c, r, k) ==
    Palette[((r * GenW + c + GenV) % Len(Palette)) + 1][k + 1]

\* reading the text back, as a C compiler does
DigitValue(ch, digits) == (CHOOSE i \in 1..Len(digits) : digits[i] = ch) - 1

RECURSIVE ParseDec(_)
ParseDec(t) ==
    IF Len(t) = 1 THEN DigitValue(t[1], DecDigitSeq)
    ELSE ParseDec(SubSeq(t, 1, Len(t) - 1)) * 10
            + DigitValue(t[Len(t)], DecDigitSeq)

WellFormedLiteral(lit) ==
    /\ Len(lit) = 4 /\ lit[1] = "0" /\ lit[2] = "x"
    /\ \A i \in 3..4 : \E d \in 1..Len(HexDigitSeq) : HexDigitSeq[d] = lit[i]

ParseLiteral(lit) ==
    16 * DigitValue(lit[3], HexDigitSeq) + DigitValue(lit[4], HexDigitSeq)

\* the initialiser list of the pixel table, row after row
RECURSIVE TableLiterals(_)
TableLiterals(text) ==
    IF text = << >> THEN << >>
    ELSE text[1].lits \o TableLiterals(Tail(text))

\* the value a definition "const int <sym> = <val>;" gives to sym
ConstValue(text, sym) ==
    ParseDec(text[CHOOSE i \in 1..Len(text) :
                      /\ text[i].text = "const int {sym} = {val};"
                      /\ text[i].sym = sym].val)

\* ------------------------------------------------------------------------
\* C14: encoding round trip.  The table emitted for a pixel byte sequence
\* of length width*height*3 lists exactly width*height*3 byte literals, in
\* row-major, channel-interleaved order without padding between rows (the
\* literal at index 3*(r*width+c)+k is channel k of pixel (c, r)); decoding
\* the literals with the emitted width and height gives the original bytes.
\* ------------------------------------------------------------------------
C14_Width == ConstValue(SourceText, GenName \o SuffixW)
C14_Height == ConstValue(SourceText, GenName \o SuffixH)

C14_RoundTrip ==
    GotSource =>
        \A lits \in {TableLiterals(SourceText)} :
            /\ C14_Width = GenW /\ C14_Height = GenH
            /\ Len(lits) = C14_Width * C14_Height * 3
            /\ \A i \in 1..Len(lits) : WellFormedLiteral(lits[i])
            /\ \A r \in 0..(C14_Height - 1), c \in 0..(C14_Width - 1),
                  k \in 0..2 :
                  ParseLiteral(lits[3 * (r * C14_Width + c) + k + 1])
                      = GenPixel(c, r, k)
            /\ [i \in 1..Len(lits) |-> ParseLiteral(lits[i])]
                  = ImageBytes(GenW, GenH, GenV)

\* an 18-byte image: the table takes a full row of 16 literals and a second
C14_Witness ==
    /\ ToolOp({"generate_source"})
    /\ tool_call.w = 3 /\ tool_call.h = 2 /\ tool_call.v = 4
    /\ Len(TableLiterals(SourceText)) = 18
    /\ Cardinality({i \in 1..Len(SourceText) : SourceText[i].lits # << >>}) = 2
    /\ TableLiterals(SourceText)[17] = <<"0", "x", "6", "4">>

\* ------------------------------------------------------------------------
\* C15: sanitize_c_identifier never fails and, for every input string (the
\* empty string and strings without any valid character included), returns
\* a non-empty string of letters, digits and underscores whose first
\* character is not a digit.
\* ------------------------------------------------------------------------
Sanitized == tool_pc # "idle" /\ tool_call.op = "sanitize_c_identifier"

C15_ValidIdentifier ==
    Sanitized =>
        /\ tool_pc = "returned" /\ tool_ret.raised = "none"
        /\ Len(tool_ret.value) >= 1
        /\ \A i \in 1..Len(tool_ret.value) : tool_ret.value[i] \in IdentChars
        /\ tool_ret.value[1] \notin DigitChars

C15_Witness ==
    /\ Sanitized
    /\ \/ tool_call.name = << >>
       \/ tool_call.name = <<"!", "\\", "!">>
    /\ tool_ret.value = DefaultName

\* ------------------------------------------------------------------------
\* C16: sanitize_c_identifier replaces every character outside
\* [a-zA-Z0-9_] by '_', collapses each run of underscores to one, strips
\* leading and trailing underscores, substitutes "image" for an empty
\* result, prefixes '_' to a leading digit, then lowercases: "My Logo!!"
\* gives "my_logo", "123abc" gives "_123abc", "___" gives "image".
\* ------------------------------------------------------------------------
\* the replaced name without the underscores that follow an underscore
C16_Collapsed(r) ==
    LET keep == {i \in 1..Len(r) : ~(i > 1 /\ r[i] = "_" /\ r[i - 1] = "_")}
        nth(n) == CHOOSE i \in keep : Cardinality({j \in keep : j < i}) = n - 1
    IN  [n \in 1..Cardinality(keep) |-> r[nth(n)]]

\* the part between the first and the last character that is no underscore
C16_Stripped(c) ==
    LET solid == {i \in 1..Len(c) : c[i] # "_"}
    IN  IF solid = {} THEN << >>
        ELSE SubSeq(c, CHOOSE i \in solid : \A j \in solid : i <= j,
                       CHOOSE i \in solid : \A j \in solid : i >= j)

C16_Expected(name) ==
    LET r == [i \in 1..Len(name) |->
                 IF name[i] \in IdentChars THEN name[i] ELSE "_"]
        t == C16_Stripped(C16_Collapsed(r))
        d == IF Len(t) = 0 THEN <<"i", "m", "a", "g", "e">> ELSE t
        p == IF d[1] \in DigitChars THEN <<"_">> \o d ELSE d
    IN  [i \in 1..Len(p) |-> LowerChar(p[i])]

C16_Examples ==
    /\ tool_call.name = <<"M", "y", " ", "L", "o", "g", "o", "!", "!">> =>
          tool_ret.value = <<"m", "y", "_", "l", "o", "g", "o">>
    /\ tool_call.name = <<"1", "2", "3", "a", "b", "c">> =>
          tool_ret.value = <<"_", "1", "2", "3", "a", "b", "c">>
    /\ tool_call.name = <<"_", "_", "_">> =>
          tool_ret.value = <<"i", "m", "a", "g", "e">>

C16_SanitizeSteps ==
    Sanitized =>
        /\ tool_ret.value = C16_Expected(tool_call.name)
        /\ C16_Examples

C16_Witness ==
    /\ Sanitized
    /\ tool_call.name = <<"M", "y", " ", "L", "o", "g", "o", "!", "!">>
    /\ tool_ret.value = <<"m", "y", "_", "l", "o", "g", "o">>

\* ------------------------------------------------------------------------
\* C17: a requested scale factor outside 2..16 is rejected before any
\* generation work, on every path that reaches generation (main,
\* convert_png_to_blit, generate_header, generate_source): the call does not
\* return text, and no file and no output directory is created.
\* ------------------------------------------------------------------------
C17_BadScale ==
    /\ ToolOp({"main", "convert_png_to_blit", "generate_header",
               "generate_source"})
    /\ tool_call.scale.given
    /\ tool_call.scale.n \notin 2..16

C17_ScaleRejected ==
    C17_BadScale =>
        /\ tool_pc # "returned"
        /\ disk = tool_call.disk_before

\* ------------------------------------------------------------------------
\* C18: when the source image is missing, undecodable or zero-dimensioned
\* the conversion fails, and it fails before the output directory is
\* created and before the header or the source file is opened: the disk is
\* as it was.
\* ------------------------------------------------------------------------
C18_BadImageNoArtifacts ==
    (/\ ToolOp({"main", "convert_png_to_blit"})
     /\ tool_call.input.kind # "png") =>
        /\ tool_pc \in {"exited", "raised"}
        /\ disk = tool_call.disk_before
        /\ disk.header = << >> /\ disk.source = << >>

C18_Witness ==
    /\ ToolOp({"convert_png_to_blit"})
    /\ tool_call.input.kind = "zero_dim"
    /\ tool_call.outdir = <<"g", "e", "n">>
    /\ ~tool_call.scale.given
    /\ tool_pc = "exited"
    /\ ~disk.outdir

\* ------------------------------------------------------------------------
\* C19: for every scale (unset or 2..16) and alpha flag, the declarations
\* artifact declares the two dimension constants and the base blit always,
\* the scaled-dimension constants and the scaled blit if and only if scaling
\* is enabled, and the alpha blit if and only if alpha is enabled; the
\* definitions artifact defines exactly the declared constants and
\* functions, with scaled_w = width*scale and scaled_h = height*scale.
\* ------------------------------------------------------------------------
C19_Const(sym) == [kind |-> "const", sym |-> sym]
C19_Func(sym) == [kind |-> "func", sym |-> sym]

C19_Declared(text) ==
    {C19_Const(text[i].sym) :
        i \in {j \in 1..Len(text) : text[j].text = "extern const int {sym};"}}
    \cup
    {C19_Func(text[i].sym) :
        i \in {j \in 1..(Len(text) - 2) :
                  text[j].text = "void {sym}(" /\ text[j + 2].text = ");"}}

C19_Defined(text) ==
    {C19_Const(text[i].sym) :
        i \in {j \in 1..Len(text) : text[j].text = "const int {sym} = {val};"}}
    \cup
    {C19_Func(text[i].sym) :
        i \in {j \in 1..(Len(text) - 3) :
                  /\ text[j].text = "void {sym}("
                  /\ text[j + 2].text = ")" /\ text[j + 3].text = "{"}}

C19_ScaleText == DecStr(tool_call.scale.n)

C19_Expected ==
    {C19_Const(GenName \o <<"_", "w">>), C19_Const(GenName \o <<"_", "h">>),
     C19_Func(GenName \o <<"_", "b", "l", "i", "t", "_", "r", "g", "b", "8", "8", "8">>)}
    \cup (IF tool_call.scale.given
          THEN {C19_Const(GenName \o <<"_", "s", "c", "a", "l", "e", "d", "_", "w">>),
                C19_Const(GenName \o <<"_", "s", "c", "a", "l", "e", "d", "_", "h">>),
                C19_Func(GenName \o <<"_", "b", "l", "i", "t", "_", "r", "g", "b", "8", "8", "8", "_">> \o C19_ScaleText
                            \o <<"x">>)}
          ELSE {})
    \cup (IF tool_call.alpha THEN {C19_Func(GenName \o <<"_", "b", "l", "i", "t", "_", "r", "g", "b", "8", "8", "8", "_", "a", "l", "p", "h", "a">>)}
          ELSE {})

C19_ValidScale == ~tool_call.scale.given \/ tool_call.scale.n \in 2..16

C19_ArtifactsAgree ==
    /\ (GotHeader /\ C19_ValidScale) =>
          C19_Declared(HeaderText) = C19_Expected
    /\ (GotSource /\ C19_ValidScale) =>
          /\ C19_Defined(SourceText) = C19_Expected
          /\ tool_call.scale.given =>
                /\ ConstValue(SourceText, GenName \o <<"_", "s", "c", "a", "l", "e", "d", "_", "w">>)
                      = GenW * tool_call.scale.n
                /\ ConstValue(SourceText, GenName \o <<"_", "s", "c", "a", "l", "e", "d", "_", "h">>)
                      = GenH * tool_call.scale.n
    /\ (Converted /\ C19_ValidScale) =>
          C19_Defined(disk.source) = C19_Declared(disk.header)

C19_Witness ==
    /\ Converted /\ tool_call.op = "main"
    /\ tool_call.scale = ScaleOf(16) /\ tool_call.alpha
    /\ tool_call.input.w = 3 /\ tool_call.input.h = 2
    /\ Cardinality(C19_Declared(disk.header)) = 7
    /\ ConstValue(disk.source, GenName \o <<"_", "s", "c", "a", "l", "e", "d", "_", "w">>) = 48
    /\ ConstValue(disk.source, GenName \o <<"_", "s", "c", "a", "l", "e", "d", "_", "h">>) = 32

\* ------------------------------------------------------------------------
\* C20: two blit calls whose clipped destination windows are disjoint, run
\* concurrently with their pixel stores interleaved in any order, leave the
\* destination buffer as the two calls run one after the other do, in
\* either order.
\* ------------------------------------------------------------------------
C20_Window(c) ==
    LET s == IF c.scale <= 1 THEN 1 ELSE c.scale
    IN  Rect(Max(c.x, 0), Min(c.x + src_w * s, dst_w),
             Max(c.y, 0), Min(c.y + src_h * s, dst_h))

C20_BothReturned == \A t \in Threads : threads[t].pc = "returned"

C20_Disjoint ==
    C20_Window(threads[1].call) \cap C20_Window(threads[2].call) = {}

C20_Sequential(first, second) ==
    ApplyWrites(ApplyWrites(BufferBefore, threads[first].writes),
                threads[second].writes)

C21_OtherBuffers ==
    {[o \in DOMAIN dst |-> (o * 37 + k) % 256] : k \in {0, 101}}

C21_BlendIgnoresDestination ==
    (pc # "ready" /\ call.op = "blit_alpha") =>
        \A other \in C21_OtherBuffers, ub \in Resolutions :
            \A second \in
                {ApplyWrites(other,
                             AlphaWith(pixels, call.alpha, call.scale,
                                       ub).writes)} :
                \A o \in C13_WindowBytes : second[o] = dst[o]

C21_Witness ==
    /\ Returned("blit_alpha") /\ call.alpha = 128
    /\ CallBg = Amber /\ call.scale = 1
    /\ call.x = 0 /\ call.y = 0
    /\ 0 \in C13_WindowBytes
    /\ \E other \in C21_OtherBuffers : other[0] # BufferBefore[0]
    /\ DstByte(dst, 0, 0, 0) = 227

\* ------------------------------------------------------------------------
\* C22: no blit operation reads outside <name>_pixels.  Every byte read has
\* an index of the table; in the row copies src_x >= 0, src_y >= 0,
\* src_x + copy_w <= width and src_y + copy_h <= height; in the scaled
\* paths 0 <= (dx - x) div s < width and 0 <= (dy - y) div s < height for
\* every destination column dx and row dy of the loops.
\* ------------------------------------------------------------------------
C22_RowsInTable(src_x, src_y, copy_w, copy_h) ==
    (copy_w > 0 /\ copy_h > 0) =>
        /\ src_x >= 0 /\ src_x + copy_w <= src_w
        /\ src_y >= 0 /\ src_y + copy_h <= src_h

C22_IndexInTable(w, ub) ==
    ~(w.dst_x0 >= w.dst_x1 \/ w.dst_y0 >= w.dst_y1) =>
        /\ \A dx \in w.dst_x0..(w.dst_x1 - 1) :
              \E idx \in {CDiv(IntOp(dx - call.x, ub), call.scale)} :
                  0 <= idx /\ idx < src_w
        /\ \A dy \in w.dst_y0..(w.dst_y1 - 1) :
              \E idx \in {CDiv(IntOp(dy - call.y, ub), call.scale)} :
                  0 <= idx /\ idx < src_h

C22_ReadsInTable ==
    pc # "ready" =>
        /\ reads \subseteq 0..(Len(pixels) - 1)
        /\ \A k \in 1..Len(writes) : writes[k].src \in reads
        /\ \A ub \in Resolutions :
              IF call.op = "blit"
              THEN \E s \in {CopyClip(call.x, call.y, src_w, src_h, dst_w,
                                      dst_h, ub)} :
                      C22_RowsInTable(s.src_x, s.src_y, s.copy_w, s.copy_h)
              ELSE IF call.op = "blit_Nx"
              THEN C22_IndexInTable(
                       ScaledClip(call.x, call.y, src_w, src_h, call.scale,
                                  dst_w, dst_h, ub), ub)
              ELSE IF AlphaUnscaled(call.scale)
              THEN \E s \in {AlphaClip(call.x, call.y, src_w, src_h, dst_w,
                                       dst_h, ub)} :
                      C22_RowsInTable(s.src_x, s.src_y, s.copy_w, s.copy_h)
              ELSE C22_IndexInTable(
                       AlphaScaledClip(call.x, call.y, src_w, src_h,
                                       call.scale, dst_w, dst_h, ub), ub)

C22_Witness ==
    /\ Returned("blit") /\ call.x = -1 /\ call.y = -1
    /\ src_w = 2 /\ src_h = 2 /\ dst_w >= 1 /\ dst_h >= 1
    /\ reads = {9, 10, 11}

\* ------------------------------------------------------------------------
\* C23, as stated: with alpha = 0 blit_blend sets every pixel of the clipped
\* placed rectangle to the background colour and does not read the image
\* pixel table at all.
\* ------------------------------------------------------------------------
C23_BackgroundOnly ==
    /\ \A k \in 1..Len(writes) : writes[k].val = CallBg[writes[k].ch + 1]
    /\ \A p \in C12_Window, ch \in 0..2 :
          DstByte(dst, p[1], p[2], ch) = CallBg[ch + 1]

C23_TransparentNoRead ==
    (pc # "ready" /\ call.op = "blit_alpha" /\ call.alpha = 0) =>
        /\ C23_BackgroundOnly
        /\ reads = {}

\* ------------------------------------------------------------------------
\* C23, amended: with alpha = 0 blit_blend sets every pixel of the clipped
\* placed rectangle to the background colour; the pixel table is still
\* read, one source byte for every byte stored, and the value read has no
\* effect on the byte stored.
\* ------------------------------------------------------------------------
C23_TransparentBackground ==
    (pc # "ready" /\ call.op = "blit_alpha" /\ call.alpha = 0) =>
        /\ C23_BackgroundOnly
        /\ reads = {writes[k].src : k \in 1..Len(writes)}
        /\ C12_Window # {} => reads # {}
        /\ \A k \in 1..Len(writes), v \in {0, 255} :
              CompositeUnscaled(v, call.alpha, CallBg[writes[k].ch + 1])
                  = writes[k].val

C23_Witness ==
    /\ Returned("blit_alpha") /\ call.alpha = 0
    /\ CallBg = Amber /\ call.scale = 2
    /\ call.x = 0 /\ call.y = 0
    /\ src_w = 1 /\ src_h = 1 /\ dst_w = 2 /\ dst_h = 2
    /\ reads = {0, 1, 2}
    /\ DstByte(dst, 1, 1, 1) = 128

\* ------------------------------------------------------------------------
\* C24: the unscaled branch of blit_blend (scale <= 1) gives the output
\* that the scaled branch's algorithm gives when run with scale factor 1,
\* for every image, origin, destination, alpha and background: the same
\* stores of the same values, and so the same buffer.
\* ------------------------------------------------------------------------
C24_ScaledBranch(sc, ub) ==
    LET w == AlphaScaledClip(call.x, call.y, src_w, src_h, sc, dst_w, dst_h,
                             ub)
    IN  IF AlphaScaledFullyClipped(w) THEN NoEffect
        ELSE AlphaScaledPixels(pixels, src_w, dst_stride_bytes, call.x,
                               call.y, sc, w, call.alpha, CallBg, ub)

C24_Stores(ws) == {<<ws[k].off, ws[k].val>> : k \in 1..Len(ws)}

C24_BranchesAgree ==
    (pc # "ready" /\ call.op = "blit_alpha" /\ call.scale <= 1) =>
        \A ub \in Resolutions :
            \E scaled \in {C24_ScaledBranch(1, ub).writes} :
                /\ C24_Stores(writes) = C24_Stores(scaled)
                /\ dst = ApplyWrites(BufferBefore, scaled)
                /\ pc = "returned"

\* ------------------------------------------------------------------------
\* C25: for src, bg and alpha in 0..255 the blend value
\* (src*alpha + bg*(255-alpha) + 127) div 255 is what both branches store:
\* it lies between min(src,bg) and max(src,bg), hence in 0..255, so the
\* cast to uint8_t does not truncate, and the sum before the division does
\* not exceed 255*255 + 127.
\* ------------------------------------------------------------------------
C25_Sum == call.src * call.alpha + call.bg * (255 - call.alpha) + 127

C25_BlendInRange ==
    (pc = "returned" /\ call.op = "composite") =>
        /\ C25_Sum >= 0 /\ C25_Sum <= 255 * 255 + 127
        /\ writes[1].val = C25_Sum \div 255
        /\ Min(call.src, call.bg) <= writes[1].val
        /\ writes[1].val <= Max(call.src, call.bg)
        /\ 0 <= writes[1].val /\ writes[1].val <= 255

C25_Witness ==
    /\ pc = "returned" /\ call.op = "composite" /\ call.branch = "scaled"
    /\ call.src = 255 /\ call.alpha = 1 /\ call.bg = 0
    /\ writes[1].val = 1

\* ------------------------------------------------------------------------
\* C26: for every origin of the int range and every dst_w, dst_h >= 0 the
\* values computed while clipping (-x, copy_w + x, x + copy_w, y + copy_h,
\* src_w*scale, x + src_w*scale, y + src_h*scale) stay in the int range,
\* so the call clips as it would over the unbounded integers.
\* ------------------------------------------------------------------------
C26_RowValues(a) ==
    {a.src_x, a.src_y, a.copy_w, a.copy_h}

C26_ClipValues ==
    IF call.op = "blit"
    THEN \* the exact values: src_x, copy_w after the left and top clips,
         \* then the sums compared with dst_w and dst_h
         LET a == CopyClipTop(CopyClipLeft(
                      CopyStart(call.x, call.y, src_w, src_h), "wide"), "wide")
         IN  C26_RowValues(a) \cup {a.x + a.copy_w, a.y + a.copy_h}
    ELSE IF call.op = "blit_alpha" /\ AlphaUnscaled(call.scale)
    THEN LET a == AlphaClipTop(AlphaClipLeft(
                      AlphaStart(call.x, call.y, src_w, src_h), "wide"), "wide")
         IN  C26_RowValues(a) \cup {a.dst_x + a.copy_w, a.dst_y + a.copy_h}
    ELSE {src_w * call.scale, src_h * call.scale,
          call.x + src_w * call.scale, call.y + src_h * call.scale}

C26_NoOverflow ==
    pc # "ready" =>
        /\ \A v \in C26_ClipValues : InInt(v)
        /\ overflow = "none"


\* ------------------------------------------------------------------------
\* C27: at most one flash operation is in progress at any time.  While a
\* download, load or flash thread is alive is_flashing is True, there is
\* never more than one such thread, so never two FlashWorker.flash threads,
\* and is_flashing turns False only in the step that processes a 'done'
\* message.
\* ------------------------------------------------------------------------
C27_FlashThreads == {w \in workers : w.kind = "flash"}

C27_OneFlashAtATime ==
    /\ [](/\ Cardinality(C27_FlashThreads) <= 1
          /\ Cardinality(workers) <= 1
          /\ workers # {} => is_flashing)
    /\ [][(is_flashing /\ ~is_flashing') =>
              (/\ msg_queue # << >>
               /\ Head(msg_queue).type = "done"
               /\ msg_queue' = Tail(msg_queue))]_vars

C27_Witness ==
    /\ is_flashing
    /\ Len(dones) = 2
    /\ \E w \in workers : w.kind = "flash" /\ w.op = 2 /\ w.pc = "esptool"
    /\ dones[1] = 1

C29_OneScanTimer == scan_timers <= 1

\* ------------------------------------------------------------------------
\* C30: cleanup never deletes the embedded firmware directory, on a 'done'
\* message or on destroy; the step that processes a 'done' message leaves
\* no temporary firmware directory on disk and firmware_dir None.
\* ------------------------------------------------------------------------
C30_DoneProcessed ==
    /\ msg_queue # << >>
    /\ Head(msg_queue).type = "done"
    /\ msg_queue' = Tail(msg_queue)

C30_EmbeddedKept ==
    /\ [][("firmware" \in dirs) => ("firmware" \in dirs')]_vars
    /\ [][C30_DoneProcessed =>
              (/\ firmware_dir' = "None"
               /\ dirs' \subseteq {"firmware"})]_vars

C30_Witness ==
    /\ window = "open"
    /\ dones = <<1, 1>>
    /\ msg_queue = << >>
    /\ ~is_flashing
    /\ firmware_dir = "None"
    /\ dirs = {"firmware"}

====
